---- MODULE Spec2Model ----
(***************************************************************************)
(* State-machine model of the news aggregation pipeline of globalAI:       *)
(* the token-bucket RateLimiter, the DeduplicationService, the             *)
(* IntensityService, the event repository (insertEvents inside a           *)
(* PostgreSQL transaction) and the NewsAggregatorService orchestrator.     *)
(* Each component has its own specification (SpecRL, SpecDedup, ...); a    *)
(* component that a specification does not exercise stays parked in its    *)
(* initial state.                                                          *)
(***************************************************************************)
EXTENDS Integers, Sequences, FiniteSets, TLC

VARIABLES
    \* ---- RateLimiter (server/src/utils/retry.ts) ----
    now,          \* Date.now(), in milliseconds
    tokens,       \* RateLimiter.tokens
    lastRefill,   \* RateLimiter.lastRefill
    rlPc,         \* per caller: position inside acquire()
    issuedAt,     \* per caller: time at which acquire() was called
    issueNo,      \* per caller: rank of the call among all calls (0 = not yet)
    wakeAt,       \* per caller: time at which the sleep() timer is due
    admittedAt,   \* per caller: time at which acquire() resolved
    \* ---- DeduplicationService.deduplicate (services/dedup/deduplication.ts) ----
    ddPc,         \* "input" before the call, "done" after it
    ddItems,      \* the RawNewsItem[] argument
    ddGroups,     \* the groups formed (each a sequence of indices into ddItems)
    ddMerged,     \* the MergedEvent[] returned
    \* ---- IntensityService.calculateIntensity (services/aggregator/intensity.ts) ----
    inPc,         \* "input" before the call, "done" after it
    inEvent,      \* the MergedEventData argument
    inCategory,   \* the category argument
    inResult,     \* the value returned
    \* ---- eventRepository.insertEvents (db/eventRepository.ts, db/index.ts) ----
    stPc,         \* "ready" before the call of insertEvents, "returned" after it
    stRows,       \* the rows of the events table
    stPrev,       \* the rows before the last call of insertEvents
    stLast,       \* the last call: its batch, its failures, its result
    \* ---- NewsAggregatorService.aggregateNews (services/aggregator/index.ts) ----
    agPc,         \* position of the current pass inside aggregateNews
    agPass,       \* the number of passes started
    agProbe,      \* fetchAllSources: index of the next source to probe
    agSettled,    \* per source: how source.fetch() settled
    agPromises,   \* per source: the promise pushed to fetchPromises
    agAllItems,   \* allItems
    agMerged,     \* mergedEvents (geocoded in place)
    agGeo,        \* whether the geocoder answered during this pass
    agNewsEvents, \* newsEvents
    agValid,      \* validEvents
    agNextId,     \* the next fresh event id
    agOutcome,    \* what the pass has done so far
    agPrev,       \* the items, the geocoder and the rows of the previous pass
    \* ---- CacheService (services/cache.ts) ----
    caPc,         \* "ready" while the cache takes calls
    caStore,      \* the Redis backend: per key the stored text, or nil
    caLast,       \* the last call: its arguments, its faults, its result, and the
                  \* text stored under its key before and after it
    \* ---- GeocodingService.geocode (services/geocoder/nominatim.ts) ----
    gePc,         \* "ready" while the geocoder takes calls
    geRedis,      \* the Redis cache: per geocoding key the stored text, or nil
    geDb,         \* the geocoding_cache table: per location name its row
    geLast,       \* the last call of geocode: its inputs, its log, its result
    \* ---- GeocodingService.geocodeBatch (services/geocoder/nominatim.ts) ----
    gbPc,         \* "idle" before the call, "looping" in the second loop, "done"
    gbNames,      \* locationNames
    gbUncached,   \* uncachedLocations
    gbIndex,      \* the position of the second loop in uncachedLocations
    gbStarted,    \* the lookups (indices of uncachedLocations) that have started
    gbInflight,   \* the lookups whose Nominatim request is in flight
    gbReturned,   \* the lookups whose geocode call has returned
    gbFault,      \* per lookup: the cache faults it meets
    gbResults,    \* per lookup: the result
    \* ---- withRetry (server/src/utils/retry.ts) ----
    wrPc,         \* "calling", "sleeping", "returned" or "threw"
    wrOpts,       \* opts: maxRetries and maxDelayMs
    wrAttempt,    \* the loop variable attempt
    wrCalls,      \* the number of calls of operation()
    wrErrors,     \* the errors of the failed attempts, in order
    wrSleeps,     \* the delays passed to sleep(), in order
    wrThrown,     \* the error thrown by withRetry
    \* ---- NewsApiService, EventRegistryService ----
    qaAdapter,    \* the adapter: "NewsAPI" or "EventRegistry"
    qaKey,        \* config.apis.<adapter>.apiKey
    qaCount,      \* dailyRequestCount / monthlyTokensUsed
    qaReset,      \* lastResetDate / lastResetMonth
    qaNow,        \* the current day / month
    qaCall,       \* per caller: the fetch* call under way or last made
    qaProbe,      \* the last isAvailable() call made on its own
    qaStarted,    \* the number of fetch* calls made
    \* ---- ClassifierService.classify ----
    clPc,         \* "input", "once" or "done"
    clItem,       \* the item classified
    clResult,     \* the category returned by the first call
    clAgain,      \* the category returned by the second call
    \* ---- aggregateNews, steps 3 to 5 ----
    gsPc,         \* "merged", "geocoded" or "filtered"
    gsMerged,     \* mergedEvents as deduplicate returned them
    gsGeo,        \* whether the geocoder answers: "up" or "down"
    gsAfter,      \* mergedEvents after geocodeItems
    gsCalls,      \* the number of geocode calls of the pass
    gsValid,      \* validEvents
    \* ---- the Tokyo earthquake scenario ----
    tkPc,         \* "input", "merged" or "converted"
    tkItems,      \* allItems
    tkMerged,     \* mergedEvents
    tkEvents,     \* newsEvents
    \* ---- DeduplicationService.mergeGroup ----
    mgPc,         \* "group" or "merged"
    mgGroup,      \* the group passed to mergeGroup
    mgMerged,     \* the merged event returned, in a list of one
    \* ---- WorkerManager (workers/index) ----
    wmPc,         \* start(): "idle", "initial", "warmup" or "started"
    wmIsRunning,  \* WorkerManager.isRunning
    wmTask,       \* aggregationTask is scheduled
    wmPasses,     \* aggregateNews calls in flight, by what began them
    \* ---- the upstream calls of GdeltService.fetch and geocode ----
    upPc,         \* "idle", "acquiring", "calling", "sleeping"
    upService,    \* the service whose call is followed
    upAttempt,    \* withRetry's attempt
    upCallsLeft,  \* calls of fetch()/geocode() still to come
    upLog,        \* the admissions and the requests, in order
    \* ---- GeocoderService.extractLocations (geocoder/index.ts) ----
    exPc,         \* "question" or "extracted"
    exQuestion,   \* what the question matches, per stage
    exResult,     \* the GeoExtraction returned, in a list of one
    \* ---- route handlers beside a pass (routes/events, routes/heatmap) ----
    rtStore,      \* the store: 0 before the pass's upsert, 1 after it
    rtCache,      \* per cache key: the store its entry was computed from
    rtPassPc,     \* the pass: "persist", "events", "heatmap", "done"
    rtHandler,    \* per request: its position, its key, what it read
    \* ---- insertEvent beside insertEvents (db/eventRepository.ts) ----
    ioRows,       \* the events table before either call
    ioEvent,      \* the event e
    ioSingle,     \* the table after insertEvent(e), in a list of one
    ioBatch       \* the table after insertEvents([e]), in a list of one

rlVars == <<now, tokens, lastRefill, rlPc, issuedAt, issueNo, wakeAt, admittedAt>>
ddVars == <<ddPc, ddItems, ddGroups, ddMerged>>

inVars == <<inPc, inEvent, inCategory, inResult>>

stVars == <<stPc, stRows, stPrev, stLast>>

agVars == <<agPc, agPass, agProbe, agSettled, agPromises, agAllItems, agMerged,
           agGeo, agNewsEvents, agValid, agNextId, agOutcome, agPrev>>

caVars == <<caPc, caStore, caLast>>

geVars == <<gePc, geRedis, geDb, geLast>>

gbVars == <<gbPc, gbNames, gbUncached, gbIndex, gbStarted, gbInflight, gbReturned,
           gbFault, gbResults>>

wrVars == <<wrPc, wrOpts, wrAttempt, wrCalls, wrErrors, wrSleeps, wrThrown>>

qaVars == <<qaAdapter, qaKey, qaCount, qaReset, qaNow, qaCall, qaProbe, qaStarted>>

clVars == <<clPc, clItem, clResult, clAgain>>

gsVars == <<gsPc, gsMerged, gsGeo, gsAfter, gsCalls, gsValid>>

tkVars == <<tkPc, tkItems, tkMerged, tkEvents>>

mgVars == <<mgPc, mgGroup, mgMerged>>

wmVars == <<wmPc, wmIsRunning, wmTask, wmPasses>>

upVars == <<upPc, upService, upAttempt, upCallsLeft, upLog>>

exVars == <<exPc, exQuestion, exResult>>

rtVars == <<rtStore, rtCache, rtPassPc, rtHandler>>

ioVars == <<ioRows, ioEvent, ioSingle, ioBatch>>

vars == <<rlVars, ddVars, inVars, stVars, agVars, caVars, geVars, gbVars, wrVars,
          qaVars, clVars, gsVars, tkVars, mgVars, wmVars, upVars, exVars,
          rtVars, ioVars>>

\* ------------------------------------------------------------------------
\* Generic helpers
\* ------------------------------------------------------------------------
Min(a, b) == IF a <= b THEN a ELSE b
Max(a, b) == IF a >= b THEN a ELSE b
Abs(a) == IF a < 0 THEN -a ELSE a

\* ========================================================================
\* RateLimiter
\* ========================================================================
\* Bounds of the rate-limiter model.
NumCallers == 4
MaxTime == 6

\* new RateLimiter(maxRequests, windowMs): the instance under study.  The
\* window is a whole multiple of maxRequests so that refillRateMs is integral.
maxTokens == 2
refillRateMs == 3
windowMs == maxTokens * refillRateMs

Callers == 1..NumCallers

\* RateLimiter.refill(): the bucket after a lazy refill at time t.
TokensToAdd(t, lr) == (t - lr) \div refillRateMs

RefillTokens_NoCap(t, tk, lr) == tk + TokensToAdd(t, lr)

RefillTokens(t, tk, lr) ==
    IF TokensToAdd(t, lr) > 0 THEN Min(maxTokens, tk + TokensToAdd(t, lr)) ELSE tk

RefillLast(t, tk, lr) ==
    IF TokensToAdd(t, lr) > 0 THEN t ELSE lr

\* acquire(), empty bucket: const waitTime = refillRateMs - (Date.now() - lastRefill);
\* sleep(Math.max(0, waitTime)).
WaitTime(t, lr) == Max(0, refillRateMs - (t - lr))

RLInit ==
    /\ now = 0
    /\ tokens = maxTokens
    /\ lastRefill = 0
    /\ rlPc = [c \in Callers |-> "idle"]
    /\ issuedAt = [c \in Callers |-> 0]
    /\ issueNo = [c \in Callers |-> 0]
    /\ wakeAt = [c \in Callers |-> 0]
    /\ admittedAt = [c \in Callers |-> 0]

NumIssued == Cardinality({c \in Callers : rlPc[c] # "idle"})

\* The clock advances; a timer that is due may fire late, never early.
Tick ==
    /\ now < MaxTime
    /\ now' = now + 1
    /\ UNCHANGED <<tokens, lastRefill, rlPc, issuedAt, issueNo, wakeAt, admittedAt>>

\* acquire() up to its first suspension point: refill(), then either take a
\* token and return, or compute waitTime and go to sleep.
Acquire(c) ==
    /\ rlPc[c] = "idle"
    /\ issuedAt' = [issuedAt EXCEPT ![c] = now]
    /\ issueNo' = [issueNo EXCEPT ![c] = NumIssued + 1]
    /\ LET tk == RefillTokens(now, tokens, lastRefill)
           lr == RefillLast(now, tokens, lastRefill)
       IN IF tk > 0
          THEN /\ tokens' = tk - 1
               /\ lastRefill' = lr
               /\ rlPc' = [rlPc EXCEPT ![c] = "admitted"]
               /\ admittedAt' = [admittedAt EXCEPT ![c] = now]
               /\ UNCHANGED wakeAt
          ELSE /\ tokens' = tk
               /\ lastRefill' = lr
               /\ rlPc' = [rlPc EXCEPT ![c] = "sleeping"]
               /\ wakeAt' = [wakeAt EXCEPT ![c] = now + WaitTime(now, lr)]
               /\ UNCHANGED admittedAt
    /\ UNCHANGED now

\* acquire() after the sleep: this.tokens = 0; this.lastRefill = Date.now().
Wake(c) ==
    /\ rlPc[c] = "sleeping"
    /\ now >= wakeAt[c]
    /\ tokens' = 0
    /\ lastRefill' = now
    /\ rlPc' = [rlPc EXCEPT ![c] = "released"]
    /\ admittedAt' = [admittedAt EXCEPT ![c] = now]
    /\ UNCHANGED <<now, issuedAt, issueNo, wakeAt>>

RLStep ==
    \/ Tick
    \/ \E c \in Callers : Acquire(c)
    \/ \E c \in Callers : Wake(c)

\* A caller whose acquire() has resolved.
Admitted(c) == rlPc[c] \in {"admitted", "released"}

\* The calls issued before c (in call order) less than one windowMs earlier.
CallsInWindowBefore(c) ==
    {d \in Callers : /\ issueNo[d] > 0
                     /\ issueNo[d] < issueNo[c]
                     /\ issuedAt[d] > issuedAt[c] - windowMs}

\* c is an acquisition in excess of maxTokens within one windowMs.
Excess(c) == issueNo[c] > 0 /\ Cardinality(CallsInWindowBefore(c)) >= maxTokens

\* C3: when more than maxTokens acquire() calls are issued within one
\* windowMs, every acquisition in excess of maxTokens is admitted no sooner
\* than one refill interval after it was issued (and none is rejected: every
\* call is either still suspended or admitted).
C3_ExcessDelayedByRefillInterval ==
    \A c \in Callers :
        (Excess(c) /\ Admitted(c)) => admittedAt[c] - issuedAt[c] >= refillRateMs

\* C4: callers suspended on an empty bucket are released one per refill
\* interval: no two of them are released less than refillRateMs apart.
C4_OneReleasePerRefill ==
    \A c, d \in Callers :
        (c # d /\ rlPc[c] = "released" /\ rlPc[d] = "released")
            => Abs(admittedAt[c] - admittedAt[d]) >= refillRateMs

\* ========================================================================
\* DeduplicationService
\* ========================================================================
\* A RawNewsItem.  Numeric optional fields (location.lat, location.lng,
\* gdeltTone) hold Undef when absent; an absent location is a location whose
\* three fields are absent (the code reads it only through location?.x).
\* Coordinates are in tenths of a degree, timestamps in hours, the tone in
\* tenths.  The summary is kept by its length only, the text of title and
\* summary by the title's characters (for the fuzzy match) and by the place
\* names the extraction patterns find in it (mentions) and the intensity
\* keywords matched in it (kw, keyword -> number of occurrences) and the
\* classifier keywords matched in it (cw, category -> number of matches).
Undef == -99999

Item(title, ts, lat, lng, name, source, url, image, sumLen, tone, mentions) ==
    [title |-> title, timestamp |-> ts,
     location |-> [lat |-> lat, lng |-> lng, name |-> name],
     source |-> source, url |-> url, imageUrl |-> image,
     summaryLen |-> sumLen, gdeltTone |-> tone, mentions |-> mentions,
     kw |-> << >>, themes |-> << >>, cw |-> << >>]

\* config.deduplication
fuzzyThreshold == 70
radiusKm == 50
timeWindowHours == 24

\* ---- normalizeTitle ----
UpperChars == {"Q", "V", "T", "M"}
LowerOf(ch) ==
    CASE ch = "Q" -> "q" [] ch = "V" -> "v" [] ch = "T" -> "t" [] ch = "M" -> "m"
      [] OTHER -> ch
WordChars ==
    {"a", "d", "e", "g", "h", "i", "k", "m", "n", "o", "q", "r", "s", "t", "u",
     "v", "y", "1", "7", "_"}
SpaceChars == {" "}

ToLowerCase(s) == [i \in 1..Len(s) |-> LowerOf(s[i])]

\* .replace(/[^\w\s]/g, '')
IsWordOrSpace(ch) == ch \in WordChars \cup SpaceChars
StripPunctuation(s) == SelectSeq(s, IsWordOrSpace)

\* .replace(/\s+/g, ' ')
RECURSIVE CollapseSpaces(_)
CollapseSpaces(s) ==
    IF Len(s) = 0 THEN <<>>
    ELSE IF Len(s) >= 2 /\ s[1] \in SpaceChars /\ s[2] \in SpaceChars
         THEN CollapseSpaces(Tail(s))
         ELSE <<(IF s[1] \in SpaceChars THEN " " ELSE s[1])>> \o CollapseSpaces(Tail(s))

\* .trim()
RECURSIVE TrimLeft(_)
TrimLeft(s) ==
    IF Len(s) > 0 /\ s[1] \in SpaceChars THEN TrimLeft(Tail(s)) ELSE s

RECURSIVE TrimRight(_)
TrimRight(s) ==
    IF Len(s) > 0 /\ s[Len(s)] \in SpaceChars
    THEN TrimRight(SubSeq(s, 1, Len(s) - 1)) ELSE s

normalizeTitle(title) ==
    TrimRight(TrimLeft(CollapseSpaces(StripPunctuation(ToLowerCase(title)))))

\* ---- fuzzball.ratio ----
\* Length of the longest common subsequence of two strings.
\* It is computed row by row: prev[j + 1] is the length for the characters
\* of s read so far and the first j characters of t; with one more
\* character ch of s, the length for the first j characters of t is the
\* larger of prev's and of 1 + prev's before a position k <= j where t has ch.
LcsRow(ch, t, prev) ==
    LET row == [c \in 1..(Len(t) + 1) |->
                   LET withCh == {prev[k] + 1 :
                                     k \in {m \in 1..(c - 1) : t[m] = ch}}
                       all == withCh \cup {prev[c]}
                   IN CHOOSE x \in all : \A y \in all : y <= x]
    IN SubSeq(row, 1, Len(t) + 1)

RECURSIVE LcsRows(_, _, _, _)
LcsRows(s, t, i, prev) ==
    IF i > Len(s) THEN prev[Len(t) + 1]
    ELSE LET row == LcsRow(s[i], t, prev)
         IN \* the row is complete before the next character is taken
            IF Len(row) = Len(t) + 1 THEN LcsRows(s, t, i + 1, row) ELSE 0

LCS(s, t) == LcsRows(s, t, 1, [c \in 1..(Len(t) + 1) |-> 0])

\* Math.round of the non-negative rational num/den.
RoundDiv(num, den) == (2 * num + den) \div (2 * den)

\* fuzzball.ratio(s, t): 100 * (|s| + |t| - d) / (|s| + |t|), rounded, where d
\* is the edit distance with substitutions costing 2, that is
\* |s| + |t| - 2 * LCS(s, t); 0 when either string is empty.
FuzzRatio(s, t) ==
    IF Len(s) = 0 \/ Len(t) = 0 THEN 0
    ELSE RoundDiv(200 * LCS(s, t), Len(s) + Len(t))

\* ---- haversineDistance ----
\* R = 6371 km: one tenth of a degree of latitude along a meridian is
\* 6371000 * pi / 1800 = 11119 m.  The items of this model lie on one
\* meridian, where the haversine distance is R * |lat2 - lat1| (in radians).
MetersPerTenthDegree == 11119

\* Off that meridian the model has one pair of points, (35.6, 139.7) and
\* (35.8, 139.9), whose haversine distance is 28648 m.
TokyoPairMeters == 28648

haversineDistance(lat1, lon1, lat2, lon2) ==
    IF lon1 = lon2 THEN MetersPerTenthDegree * Abs(lat2 - lat1)
    ELSE CASE {<<lat1, lon1>>, <<lat2, lon2>>} = {<<356, 1397>>, <<358, 1399>>}
                -> TokyoPairMeters

HasCoordinates(item) == item.location.lat # Undef /\ item.location.lng # Undef

\* ---- areSimilar ----
areSimilar_NoDistanceCheck(a, b) ==
    /\ Abs(a.timestamp - b.timestamp) <= timeWindowHours
    /\ FuzzRatio(normalizeTitle(a.title), normalizeTitle(b.title)) >= fuzzyThreshold

areSimilar_NoTitleCheck(a, b) ==
    /\ ~(Abs(a.timestamp - b.timestamp) > timeWindowHours)
    /\ ~(/\ HasCoordinates(a) /\ HasCoordinates(b)
         /\ haversineDistance(a.location.lat, a.location.lng,
                              b.location.lat, b.location.lng) > radiusKm * 1000)

areSimilar(a, b) ==
    /\ ~(Abs(a.timestamp - b.timestamp) > timeWindowHours)
    /\ ~(/\ HasCoordinates(a) /\ HasCoordinates(b)
         /\ haversineDistance(a.location.lat, a.location.lng,
                              b.location.lat, b.location.lng) > radiusKm * 1000)
    /\ FuzzRatio(normalizeTitle(a.title), normalizeTitle(b.title)) >= fuzzyThreshold

\* ---- deduplicate: the grouping loops ----
\* The sequence of the elements of the integer set S in increasing order.
RECURSIVE SortedSeq(_)
SortedSeq(S) ==
    IF S = {} THEN <<>>
    ELSE LET m == CHOOSE x \in S : \A y \in S : x <= y
         IN <<m>> \o SortedSeq(S \ {m})

\* The inner loop for seed i: the later, unprocessed items similar to the seed.
GroupOf_IgnoringProcessed(items, i, processed) ==
    <<i>> \o SortedSeq({j \in (i + 1)..Len(items) :
                          areSimilar(items[i], items[j])})

GroupOf(items, i, processed) ==
    <<i>> \o SortedSeq({j \in (i + 1)..Len(items) :
                          j \notin processed /\ areSimilar(items[i], items[j])})

SeqToSet(s) == {s[k] : k \in 1..Len(s)}

RECURSIVE DedupLoop(_, _, _)
DedupLoop(items, i, processed) ==
    IF i > Len(items) THEN <<>>
    ELSE IF i \in processed THEN DedupLoop(items, i + 1, processed)
    ELSE LET g == GroupOf(items, i, processed)
         IN <<g>> \o DedupLoop(items, i + 1, processed \cup SeqToSet(g))

DedupGroups(items) == DedupLoop(items, 1, {})

\* ---- mergeGroup ----
\* qualityScore(item) at clock nowH (hours); ages are counted in minutes.
qualityScore(item, nowH) ==
    (IF item.location.lat # Undef THEN 100 ELSE 0)
    + (IF item.imageUrl # "" THEN 50 ELSE 0)
    + (IF item.summaryLen > 50 THEN 30 ELSE 0)
    + (IF item.gdeltTone # Undef THEN 20 ELSE 0)
    - Min(60 * (nowH - item.timestamp), 1000)

\* sorted[0] of the stable descending sort: the first member of the group,
\* in group order, whose score no other member exceeds.
CanonicalIndex(group, nowH) ==
    CHOOSE k \in 1..Len(group) :
        /\ \A m \in 1..Len(group) :
               qualityScore(group[m], nowH) <= qualityScore(group[k], nowH)
        /\ \A m \in 1..(k - 1) :
               qualityScore(group[m], nowH) < qualityScore(group[k], nowH)

\* JavaScript truthiness of an optional number: !x holds for undefined and 0.
Falsy(x) == x = Undef \/ x = 0

\* The loop "for (const candidate of group)" over members k..Len(group),
\* carrying the best attributes found so far.
RECURSIVE MergeBest(_, _, _)
MergeBest(group, k, best) ==
    IF k > Len(group) THEN best
    ELSE LET item == group[k]
             loc == IF Falsy(best.location.lat) /\ item.location.lat # Undef
                    THEN item.location ELSE best.location
             img == IF best.imageUrl = "" /\ item.imageUrl # ""
                    THEN item.imageUrl ELSE best.imageUrl
             sm  == IF item.summaryLen > 0
                       /\ (best.summaryLen = 0 \/ item.summaryLen > best.summaryLen)
                    THEN item.summaryLen ELSE best.summaryLen
             tn  == IF best.gdeltTone = Undef /\ item.gdeltTone # Undef
                    THEN item.gdeltTone ELSE best.gdeltTone
         IN MergeBest(group, k + 1,
                      [location |-> loc, imageUrl |-> img,
                       summaryLen |-> sm, gdeltTone |-> tn])

\* [...new Set(values)]: the distinct values in order of first occurrence.
RECURSIVE Distinct(_)
Distinct(s) ==
    IF Len(s) = 0 THEN <<>>
    ELSE LET front == Distinct(SubSeq(s, 1, Len(s) - 1))
         IN IF s[Len(s)] \in SeqToSet(front) THEN front ELSE Append(front, s[Len(s)])

mergeGroup(group, nowH) ==
    LET canonical == group[CanonicalIndex(group, nowH)]
        best == MergeBest(group, 1,
                          [location |-> canonical.location,
                           imageUrl |-> canonical.imageUrl,
                           summaryLen |-> canonical.summaryLen,
                           gdeltTone |-> canonical.gdeltTone])
        sources == Distinct([k \in 1..Len(group) |-> group[k].source])
    IN [canonicalItem |->
            [canonical EXCEPT !.location = best.location,
                              !.imageUrl = best.imageUrl,
                              !.summaryLen = best.summaryLen,
                              !.gdeltTone = best.gdeltTone],
        sources |-> sources,
        sourceUrls |-> Distinct([k \in 1..Len(group) |-> group[k].url]),
        sourceCount |-> Len(sources)]

\* deduplicate(items) at clock nowH.
Members(items, g) == [k \in 1..Len(g) |-> items[g[k]]]

deduplicate(items, nowH) ==
    LET groups == DedupGroups(items)
    IN [n \in 1..Len(groups) |-> mergeGroup(Members(items, groups[n]), nowH)]

\* ---- the specification of deduplicate ----
\* Bound: the longest input batch.
MaxItems == 3

\* The clock of the deduplication runs (hours).
DedupNow == 31

Meridian == 1397
TitleQuake == <<"Q", "u", "a", "k", "e">>
TitleQuakeBang == <<" ", "q", "u", "a", "k", "e", "!">>
TitleQuaky == <<"q", "u", "a", "k", "y">>
TitleVote == <<"V", "o", "t", "e">>

DedupUniverse ==
    { Item(TitleQuake, 28, 356, Meridian, "", "GDELT", "u1", "", 0, -35, <<>>),
      Item(TitleQuakeBang, 30, 359, Meridian, "", "NewsAPI", "u2", "img", 60, Undef, <<>>),
      Item(TitleQuaky, 30, 362, Meridian, "", "RSS", "u3", "", 10, Undef, <<>>),
      Item(TitleQuake, 28, Undef, Undef, "", "RSS", "u4", "", 0, Undef, <<>>),
      Item(TitleQuake, 28, 400, Meridian, "", "GDELT", "u5", "", 0, Undef, <<>>),
      Item(TitleVote, 28, 356, Meridian, "", "NewsAPI", "u6", "", 0, Undef, <<>>),
      Item(TitleQuake, 0, 356, Meridian, "", "NewsAPI", "u7", "", 0, Undef, <<>>) }

BatchesUpTo(U, n) == UNION {[1..k -> U] : k \in 0..n}

DDParked ==
    /\ ddPc = "parked"
    /\ ddItems = <<>>
    /\ ddGroups = <<>>
    /\ ddMerged = <<>>

DDInit ==
    /\ ddPc = "input"
    /\ ddItems \in BatchesUpTo(DedupUniverse, MaxItems)
    /\ ddGroups = <<>>
    /\ ddMerged = <<>>

\* deduplicate(items) called on the batch.
Deduplicate ==
    /\ ddPc = "input"
    /\ ddPc' = "done"
    /\ ddGroups' = DedupGroups(ddItems)
    /\ ddMerged' = deduplicate(ddItems, DedupNow)
    /\ UNCHANGED ddItems

\* The distance between two items that both carry coordinates.
ItemDistance(a, b) ==
    haversineDistance(a.location.lat, a.location.lng, b.location.lat, b.location.lng)

WithinRadius(a, b) == ItemDistance(a, b) <= radiusKm * 1000

\* C2 (as claimed): in every group returned by deduplicate, any two members
\* that both carry coordinates are within the configured radius of each other.
C2_AnyTwoMembersWithinRadius ==
    ddPc = "done" =>
        \A n \in 1..Len(ddGroups) : \A k, m \in 1..Len(ddGroups[n]) :
            LET a == ddItems[ddGroups[n][k]]
                b == ddItems[ddGroups[n][m]]
            IN (HasCoordinates(a) /\ HasCoordinates(b)) => WithinRadius(a, b)

\* C2 (amended): in every group returned by deduplicate, every member that
\* carries coordinates is within the configured radius of the group's seed
\* (its first member in input order) whenever the seed carries coordinates.
C2_MembersWithinRadiusOfSeed ==
    ddPc = "done" =>
        \A n \in 1..Len(ddGroups) : \A k \in 2..Len(ddGroups[n]) :
            LET seed == ddItems[ddGroups[n][1]]
                b == ddItems[ddGroups[n][k]]
            IN (HasCoordinates(seed) /\ HasCoordinates(b)) => WithinRadius(seed, b)

\* A run in which one group holds a seed and a member that both carry
\* coordinates, and a later item with the seed's normalized title, inside the
\* time window but farther than the radius, was kept out of that group.
C2_Witness ==
    /\ ddPc = "done"
    /\ \E n \in 1..Len(ddGroups) :
         LET g == ddGroups[n]
             seed == ddItems[g[1]]
         IN /\ Len(g) >= 2
            /\ HasCoordinates(seed)
            /\ \E k \in 2..Len(g) : HasCoordinates(ddItems[g[k]])
            /\ \E j \in (g[1] + 1)..Len(ddItems) :
                 /\ j \notin SeqToSet(g)
                 /\ HasCoordinates(ddItems[j])
                 /\ normalizeTitle(ddItems[j].title) = normalizeTitle(seed.title)
                 /\ Abs(ddItems[j].timestamp - seed.timestamp) <= timeWindowHours
                 /\ ~WithinRadius(seed, ddItems[j])


\* ========================================================================
\* IntensityService
\* ========================================================================
\* config.intensity
sourceCountWeight == 20
toneWeight == 10
recencyDecayHours == 24

Categories ==
    {"conflict", "politics", "disaster", "economics", "health", "technology",
     "environment"}

\* config.intensity.categoryMultipliers, in tenths.
categoryMultipliers10 ==
    [c \in Categories |->
        CASE c = "conflict" -> 15 [] c = "disaster" -> 14 [] c = "politics" -> 12
          [] c = "health" -> 11 [] c = "economics" -> 10 [] c = "environment" -> 10
          [] c = "technology" -> 9]

\* INTENSITY_KEYWORDS
INTENSITY_KEYWORDS ==
    [breaking |-> 15, urgent |-> 12, emergency |-> 15, crisis |-> 12,
     mass_casualty |-> 20, massacre |-> 18, genocide |-> 20, war_crime |-> 18,
     thousands |-> 8, millions |-> 12, billions |-> 15, nationwide |-> 10,
     worldwide |-> 12, global |-> 10, unprecedented |-> 10, historic |-> 8,
     record_breaking |-> 8, deadly |-> 12, fatal |-> 10, catastrophic |-> 15,
     devastating |-> 12, massive |-> 8, major |-> 6, severe |-> 8,
     critical |-> 10, imminent |-> 10, immediate |-> 8, underway |-> 6,
     ongoing |-> 5, escalating |-> 8, intensifying |-> 8, collapse |-> 10,
     explosion |-> 8, destruction |-> 10, shutdown |-> 6, blockade |-> 8]

\* The sum of weight * matches over the keywords matched in a text; kw maps
\* each matched keyword to its number of whole-word occurrences.
RECURSIVE KeywordSum(_, _)
KeywordSum(kw, ks) ==
    IF ks = {} THEN 0
    ELSE LET k == CHOOSE x \in ks : TRUE
         IN INTENSITY_KEYWORDS[k] * kw[k] + KeywordSum(kw, ks \ {k})

\* analyzeKeywords(item): capped at 50.
analyzeKeywords(item) == Min(KeywordSum(item.kw, DOMAIN item.kw), 50)

\* calculateRecencyBonus(timestamp) at clock nowH, times recencyDecayHours
\* (the bonus is 20 * (1 - hoursAgo / recencyDecayHours) inside the window).
RecencyBonusTimesDecay(ts, nowH) ==
    LET hoursAgo == nowH - ts
    IN IF hoursAgo < 0 THEN 0
       ELSE IF hoursAgo <= 1 THEN 20 * recencyDecayHours
       ELSE IF hoursAgo <= recencyDecayHours THEN 20 * (recencyDecayHours - hoursAgo)
       ELSE 0

\* (sourceScore + toneScore + keywordScore + recencyBonus), times
\* recencyDecayHours.  The tone is in tenths, so |tone| * toneWeight is
\* |tone10| * toneWeight / 10.
ScoreSumTimesDecay(event, nowH) ==
    LET item == event.canonicalItem
        sourceScore == Min(event.sourceCount, 10) * sourceCountWeight
        toneScore == IF item.gdeltTone # Undef
                     THEN (Abs(item.gdeltTone) * toneWeight) \div 10 ELSE 0
    IN recencyDecayHours * (sourceScore + toneScore + analyzeKeywords(item))
       + RecencyBonusTimesDecay(item.timestamp, nowH)

\* Math.round((rawIntensity / maxExpected) * 100), before the clamp.
maxExpected == 150

RoundedIntensity(event, category, nowH) ==
    RoundDiv(ScoreSumTimesDecay(event, nowH) * categoryMultipliers10[category] * 100,
             recencyDecayHours * 10 * maxExpected)

calculateIntensity_NoClamp(event, category, nowH) ==
    RoundedIntensity(event, category, nowH)

\* calculateIntensity(event, category) at clock nowH.
calculateIntensity(event, category, nowH) ==
    Min(100, RoundedIntensity(event, category, nowH))

\* ---- the specification of calculateIntensity ----
\* Bound: the largest source count tried.
MaxSourceCount == 11

\* The clock of the scoring runs (hours).
IntensityNow == 40

NoKeywords == << >>
IntensityTones == {Undef, 0, -35, 120, -1000}
IntensityTimestamps == {42, 40, 39, 28, 16, 10}
IntensityKeywordMatches ==
    { NoKeywords,
      [k \in {"ongoing"} |-> 1],
      [k \in {"breaking", "deadly"} |-> 1],
      [k \in {"genocide", "mass_casualty"} |-> 2] }

ScoredEvent(sc, tone, ts, kw) ==
    [canonicalItem |->
        [Item(TitleQuake, ts, 356, Meridian, "", "GDELT", "u1", "", 0, tone, <<>>)
            EXCEPT !.kw = kw],
     sourceCount |-> sc]

INParked ==
    /\ inPc = "parked"
    /\ inEvent = ScoredEvent(1, Undef, 0, NoKeywords)
    /\ inCategory = "conflict"
    /\ inResult = 0

INInit ==
    /\ inPc = "input"
    /\ \E sc \in 1..MaxSourceCount, tone \in IntensityTones,
          ts \in IntensityTimestamps, kw \in IntensityKeywordMatches :
          inEvent = ScoredEvent(sc, tone, ts, kw)
    /\ inCategory \in Categories
    /\ inResult = 0

\* intensityService.calculateIntensity(event, category)
CalculateIntensity ==
    /\ inPc = "input"
    /\ inPc' = "done"
    /\ inResult' = calculateIntensity(inEvent, inCategory, IntensityNow)
    /\ UNCHANGED <<inEvent, inCategory>>

\* C5: calculateIntensity returns a value in [0,100] for every combination of
\* source count >= 1, tone (absent or of any magnitude), keyword matches, item
\* age (future timestamps included) and category.
C5_IntensityInRange ==
    inPc = "done" => (inResult >= 0 /\ inResult <= 100)

\* The ceiling case: maximal corroboration, tone and keywords push the
\* rounded score above 100 and the result is clamped to 100.
C5_Witness ==
    /\ inPc = "done"
    /\ inEvent.sourceCount >= 10
    /\ inEvent.canonicalItem.gdeltTone # Undef
    /\ analyzeKeywords(inEvent.canonicalItem) = 50
    /\ RoundedIntensity(inEvent, inCategory, IntensityNow) > 100
    /\ inResult = 100

\* ========================================================================
\* ClassifierService
\* ========================================================================
\* Object.entries(scores): the categories in declaration order.
CategoryOrder ==
    <<"conflict", "politics", "disaster", "economics", "health", "technology",
      "environment">>

\* CATEGORY_DEFINITIONS[...].weight, in tenths.
categoryWeight10 ==
    [c \in Categories |->
        CASE c = "conflict" -> 15 [] c = "politics" -> 12 [] c = "disaster" -> 14
          [] c = "economics" -> 10 [] c = "health" -> 11 [] c = "technology" -> 9
          [] c = "environment" -> 10]

\* GDELT_THEME_MAP, for the theme keys of this model.
GDELT_THEME_MAP ==
    [TERROR |-> "conflict", EARTHQUAKE |-> "disaster", ELECTION |-> "politics",
     ECONOMY |-> "economics", HEALTH |-> "health", TECHNOLOGY |-> "technology",
     CLIMATE |-> "environment"]

\* The number of themes of the item that map to category c.
ThemeHits(item, c) ==
    Cardinality({k \in 1..Len(item.themes) : GDELT_THEME_MAP[item.themes[k]] = c})

\* The number of whole-word matches of category c's keywords in the text.
KeywordHits(item, c) == IF c \in DOMAIN item.cw THEN item.cw[c] ELSE 0

\* scores[c], in tenths.
CategoryScore10(item, c) ==
    30 * ThemeHits(item, c)
    + KeywordHits(item, c) * categoryWeight10[c]
    + (IF item.gdeltTone # Undef /\ item.gdeltTone < -50 /\ c \in {"conflict", "disaster"}
       THEN 10 ELSE 0)

\* The highest of the seven scores.
MaxScore10(item) ==
    CHOOSE m \in {CategoryScore10(item, c) : c \in Categories} :
        \A c \in Categories : CategoryScore10(item, c) <= m

SourceHints == [TechCrunch |-> "technology", BusinessWire |-> "economics"]

\* The test of the loop over Object.entries(scores): score > maxScore.
ScoreBeats_OrEqual(score, maxScore) == score >= maxScore

ScoreBeats(score, maxScore) == score > maxScore

\* The loop over Object.entries(scores) from position k on, carrying
\* maxScore and maxCategory.
RECURSIVE MaxLoop(_, _, _, _)
MaxLoop(item, k, maxScore, maxCategory) ==
    IF k > Len(CategoryOrder)
    THEN [maxScore |-> maxScore, maxCategory |-> maxCategory]
    ELSE LET category == CategoryOrder[k]
             score == CategoryScore10(item, category)
         IN IF ScoreBeats(score, maxScore)
            THEN MaxLoop(item, k + 1, score, category)
            ELSE MaxLoop(item, k + 1, maxScore, maxCategory)

classify(item) ==
    LET found == MaxLoop(item, 1, 0, "politics")
    IN IF found.maxScore = 0 /\ item.source \in DOMAIN SourceHints
       THEN SourceHints[item.source]
       ELSE found.maxCategory

\* ========================================================================
\* Event repository: insertEvents inside transaction()
\* ========================================================================
\* The events table is a set of rows; a NewsEvent and a row are records.
RowOf(event) ==
    [id |-> event.id, title |-> event.title, summaryLen |-> event.summaryLen,
     lat |-> event.lat, lng |-> event.lng, timestamp |-> event.timestamp,
     source |-> event.source, category |-> event.category,
     intensity |-> event.intensity, url |-> event.url,
     image_url |-> event.imageUrl,
     gdelt_tone |-> IF Falsy(event.gdeltTone) THEN Undef ELSE event.gdeltTone,
     source_count |-> IF Falsy(event.sourceCount) THEN 1 ELSE event.sourceCount]

\* ON CONFLICT (id) DO UPDATE SET ...: the stored row merged with the
\* incoming (EXCLUDED) row.
ConflictUpdate_TakeIncoming(row, excluded) ==
    [row EXCEPT !.title = excluded.title,
                !.summaryLen = excluded.summaryLen,
                !.intensity = excluded.intensity,
                !.source_count = excluded.source_count]

ConflictUpdate(row, excluded) ==
    [row EXCEPT !.title = excluded.title,
                !.summaryLen = excluded.summaryLen,
                !.intensity = Max(row.intensity, excluded.intensity),
                !.source_count = row.source_count + 1]

\* INSERT ... ON CONFLICT (id) DO UPDATE for one event.
Upsert(rows, event) ==
    IF \E r \in rows : r.id = event.id
    THEN {IF r.id = event.id THEN ConflictUpdate(r, RowOf(event)) ELSE r : r \in rows}
    ELSE rows \cup {RowOf(event)}

RECURSIVE UpsertAll(_, _)
UpsertAll(rows, events) ==
    IF Len(events) = 0 THEN rows
    ELSE UpsertAll(Upsert(rows, Head(events)), Tail(events))

\* How a statement of the batch ends: "ok"; "server", an error reported by
\* PostgreSQL, which puts the open transaction into the aborted state; or
\* "client", an error raised before the statement reaches the server.
StatementOutcomes == {"ok", "server", "client"}

\* How the transaction's own steps end: "none" (no failure), or a failure of
\* pool.connect(), of BEGIN or of COMMIT.
TransactionFailures == {"none", "connect", "begin", "commit"}

\* The loop "for (const event of events)" from event k on.  In an aborted
\* transaction every further statement is refused by the server and caught.
RECURSIVE InsertLoop(_, _, _, _)
InsertLoop(events, stmt, k, acc) ==
    IF k > Len(events) THEN acc
    ELSE IF acc.aborted THEN InsertLoop(events, stmt, k + 1, acc)
    ELSE IF stmt[k] = "ok"
         THEN InsertLoop(events, stmt, k + 1,
                         [acc EXCEPT !.rows = Upsert(acc.rows, events[k]),
                                     !.inserted = acc.inserted + 1])
    ELSE IF stmt[k] = "server"
         THEN InsertLoop(events, stmt, k + 1, [acc EXCEPT !.aborted = TRUE])
    ELSE InsertLoop(events, stmt, k + 1, acc)

\* insertEvents(events) on the table rows: the table afterwards, the count
\* returned and whether the call rejected.  COMMIT in an aborted transaction
\* rolls back and reports no error.
insertEvents(rows, events, stmt, txFail) ==
    IF Len(events) = 0
    THEN [rows |-> rows, inserted |-> 0, threw |-> FALSE]
    ELSE IF txFail \in {"connect", "begin"}
    THEN [rows |-> rows, inserted |-> 0, threw |-> TRUE]
    ELSE LET acc == InsertLoop(events, stmt, 1,
                               [rows |-> rows, inserted |-> 0, aborted |-> FALSE])
         IN IF txFail = "commit"
            THEN [rows |-> rows, inserted |-> acc.inserted, threw |-> TRUE]
            ELSE [rows |-> IF acc.aborted THEN rows ELSE acc.rows,
                  inserted |-> acc.inserted, threw |-> FALSE]

\* ---- the specification of insertEvents ----
\* Bound: the longest batch.
MaxBatch == 2

StoreEvent(id, intensity, sc) ==
    [id |-> id, title |-> TitleQuake, summaryLen |-> 0, lat |-> 356,
     lng |-> Meridian, timestamp |-> 28, source |-> <<"GDELT">>,
     category |-> "disaster", intensity |-> intensity, url |-> "u1",
     imageUrl |-> "", gdeltTone |-> Undef, sourceCount |-> sc]

StoreUniverse ==
    { StoreEvent(1, 10, 3), StoreEvent(1, 60, 0), StoreEvent(2, 60, 3) }

\* The failure patterns explored for one call: a failure of the
\* transaction's own steps with statements that would all succeed, or
\* statement failures in a transaction whose own steps succeed.  What a
\* statement would do after a server error is left at "ok": the server
\* refuses it whatever it is.
StatementRuns(events, txFail) ==
    IF txFail # "none"
    THEN {[k \in 1..Len(events) |-> "ok"]}
    ELSE {stmt \in [1..Len(events) -> StatementOutcomes] :
            \A k \in 1..Len(events) :
                stmt[k] = "server" => \A m \in (k + 1)..Len(events) : stmt[m] = "ok"}

NoCall == [events |-> <<>>, stmt |-> <<>>, txFail |-> "none", inserted |-> 0,
           threw |-> FALSE]

STParked ==
    /\ stPc = "parked"
    /\ stRows = {}
    /\ stPrev = {}
    /\ stLast = NoCall

\* The tables that earlier calls of insertEvents leave behind: the empty
\* table with one batch upserted.
SeededTables == {UpsertAll({}, b) : b \in BatchesUpTo(StoreUniverse, MaxBatch)}

STInit ==
    /\ stPc = "ready"
    /\ stRows \in SeededTables
    /\ stPrev = stRows
    /\ stLast = NoCall

\* One call of insertEvents(events) on the table.
InsertEvents ==
    /\ stPc = "ready"
    /\ \E events \in BatchesUpTo(StoreUniverse, MaxBatch) :
       \E txFail \in TransactionFailures :
       \E stmt \in StatementRuns(events, txFail) :
          LET res == insertEvents(stRows, events, stmt, txFail)
          IN /\ stRows' = res.rows
             /\ stLast' = [events |-> events, stmt |-> stmt, txFail |-> txFail,
                           inserted |-> res.inserted, threw |-> res.threw]
    /\ stPrev' = stRows
    /\ stPc' = "returned"

\* The events of the last call whose own statement did not fail.
RECURSIVE OkEventsFrom(_, _)
OkEventsFrom(call, k) ==
    IF k > Len(call.events) THEN <<>>
    ELSE (IF call.stmt[k] = "ok" THEN <<call.events[k]>> ELSE <<>>)
         \o OkEventsFrom(call, k + 1)

OkEvents(call) == OkEventsFrom(call, 1)

\* A call in which nothing failed.
CleanCall(call) ==
    /\ call.txFail = "none"
    /\ Len(call.events) > 0
    /\ \A k \in 1..Len(call.events) : call.stmt[k] = "ok"

IncomingFor(call, id) == {k \in 1..Len(call.events) : call.events[k].id = id}

\* C9: an upsert of a stored id creates no second row; after a call in which
\* nothing failed the stored intensity is the maximum of the stored and the
\* incoming intensities and the source count has grown by one per upsert;
\* over any call, no stored intensity or source count decreases.
C9_UpsertMergesByIdentity ==
    stPc = "returned" =>
        /\ \A r1, r2 \in stRows : r1.id = r2.id => r1 = r2
        /\ \A p \in stPrev : \E r \in stRows :
               /\ r.id = p.id
               /\ r.intensity >= p.intensity
               /\ r.source_count >= p.source_count
        /\ CleanCall(stLast) =>
               \A p \in stPrev : \A r \in stRows :
                   (r.id = p.id /\ IncomingFor(stLast, p.id) # {}) =>
                       /\ r.source_count =
                              p.source_count + Cardinality(IncomingFor(stLast, p.id))
                       /\ r.intensity >= p.intensity
                       /\ \A k \in IncomingFor(stLast, p.id) :
                              r.intensity >= stLast.events[k].intensity
                       /\ \/ r.intensity = p.intensity
                          \/ \E k \in IncomingFor(stLast, p.id) :
                                 r.intensity = stLast.events[k].intensity

\* A clean call upserted an id that was stored with a higher intensity than
\* the incoming one: the stored intensity was kept and the count incremented.
C9_Witness ==
    /\ stPc = "returned"
    /\ CleanCall(stLast)
    /\ \E p \in stPrev : \E r \in stRows : \E k \in IncomingFor(stLast, p.id) :
         /\ r.id = p.id
         /\ stLast.events[k].intensity < p.intensity
         /\ r.intensity = p.intensity
         /\ r.source_count = p.source_count + 1

\* C10: when the write of one event of a batch fails, only that event is
\* skipped: the table afterwards is the table before with every event whose
\* own write did not fail upserted, and the count returned is their number.
C10_FailureSkipsOnlyThatEvent ==
    (stPc = "returned" /\ stLast.txFail = "none") =>
        /\ ~stLast.threw
        /\ stRows = UpsertAll(stPrev, OkEvents(stLast))
        /\ stLast.inserted = Len(OkEvents(stLast))

\* ========================================================================
\* NewsAggregatorService
\* ========================================================================
\* this.sources, in the order of the constructor.
Sources == <<"GDELT", "NewsAPI", "EventRegistry", "RSS">>
SourceIds == 1..Len(Sources)

\* Bound: the number of passes of aggregateNews.
MaxPasses == 2

\* The clock of the passes (hours).
AggNow == 31

\* What source.isAvailable() can answer: the RSS adapter always answers
\* true; the EventRegistry adapter answers false, its key being left at the
\* default of the configuration (none); GDELT and NewsAPI answer by their
\* rate limit, key and quota.
Availability(s) ==
    CASE Sources[s] = "RSS" -> {TRUE}
      [] Sources[s] = "EventRegistry" -> {FALSE}
      [] OTHER -> BOOLEAN

\* The item that each adapter in use has to offer: GDELT an item with
\* coordinates, NewsAPI an item without coordinates whose text names a
\* place, RSS an item without coordinates whose location name is not a
\* place (its title is the one of the GDELT item, up to case and
\* punctuation).
SourceItem(s) ==
    CASE Sources[s] = "GDELT" ->
           [Item(TitleQuake, 28, 356, Meridian, "", "GDELT", "g1", "", 0, -35, <<>>)
               EXCEPT !.themes = <<"EARTHQUAKE">>]
      [] Sources[s] = "NewsAPI" ->
           [Item(TitleVote, 30, Undef, Undef, "", "NewsAPI", "n1", "img", 60, Undef,
                 <<"Paris">>)
               EXCEPT !.cw = [politics |-> 1]]
      [] Sources[s] = "RSS" ->
           Item(TitleQuakeBang, 30, Undef, Undef, "Atlantis", "RSS", "r1", "", 10,
                Undef, <<>>)

\* How a call of source.fetch() can settle.
FetchSettlements(s) ==
    { [state |-> "rejected", value |-> <<>>],
      [state |-> "fulfilled", value |-> <<SourceItem(s)>>] }

\* source.fetch().catch(() => []): the promise pushed to fetchPromises.
FetchCatch_Propagate(settled) == settled

FetchCatch(settled) ==
    IF settled.state = "rejected"
    THEN [state |-> "fulfilled", value |-> <<>>]
    ELSE settled

NotStarted == [state |-> "none", value |-> <<>>]
Skipped == [state |-> "skipped", value |-> <<>>]
Pending == [state |-> "pending", value |-> <<>>]

\* results.push(...items) for each of sourceResults, in order.
RECURSIVE ConcatResults(_, _)
ConcatResults(promises, s) ==
    IF s > Len(Sources) THEN <<>>
    ELSE promises[s].value \o ConcatResults(promises, s + 1)

\* ---- geocodeItems ----
maxGeocodeItems == 20

\* The places Nominatim knows.
Gazetteer == [Paris |-> [lat |-> 489, lng |-> 23, displayName |-> "Paris, France"]]

NoResult == [lat |-> Undef, lng |-> Undef, displayName |-> ""]

\* geocodingService.geocode(name): a result or null, and never a rejection.
geocode(name, geo) ==
    IF geo = "up" /\ name \in DOMAIN Gazetteer THEN Gazetteer[name] ELSE NoResult

\* geocodingService.extractAndGeocodeLocations(text): the results of the
\* place names found in the text, in order.
RECURSIVE extractAndGeocodeLocations(_, _)
extractAndGeocodeLocations(mentions, geo) ==
    IF mentions = <<>> THEN <<>>
    ELSE LET r == geocode(Head(mentions), geo)
             rest == extractAndGeocodeLocations(Tail(mentions), geo)
         IN IF r = NoResult THEN rest ELSE <<r>> \o rest

NeedsGeocoding(me) ==
    Falsy(me.canonicalItem.location.lat) \/ Falsy(me.canonicalItem.location.lng)

\* The body of the loop of geocodeItems for one merged event.
GeocodeOne_Nothing(me, geo) == me

GeocodeOne(me, geo) ==
    LET item == me.canonicalItem
        locations == extractAndGeocodeLocations(item.mentions, geo)
    IN IF Len(locations) > 0
       THEN [me EXCEPT !.canonicalItem.location =
                [lat |-> locations[1].lat, lng |-> locations[1].lng,
                 name |-> locations[1].displayName]]
       ELSE IF item.location.name # "" /\ geocode(item.location.name, geo) # NoResult
       THEN [me EXCEPT !.canonicalItem.location.lat =
                           geocode(item.location.name, geo).lat,
                       !.canonicalItem.location.lng =
                           geocode(item.location.name, geo).lng]
       ELSE me

\* Step 3 of aggregateNews: the first maxGeocodeItems merged events that
\* need geocoding are geocoded in place.
geocodeItems(merged, geo) ==
    LET needing == {k \in 1..Len(merged) : NeedsGeocoding(merged[k])}
        rank(k) == Cardinality({m \in needing : m <= k})
    IN [k \in 1..Len(merged) |->
           IF k \in needing /\ rank(k) <= maxGeocodeItems
           THEN GeocodeOne(merged[k], geo) ELSE merged[k]]

\* ---- convertToNewsEvents ----
\* uuidv4() is modelled as a fresh number: firstId, firstId + 1, ...
convertToNewsEvents(merged, firstId) ==
    [k \in 1..Len(merged) |->
        LET item == merged[k].canonicalItem
        IN [id |-> firstId + k - 1,
            title |-> item.title,
            summaryLen |-> item.summaryLen,
            lat |-> IF Falsy(item.location.lat) THEN 0 ELSE item.location.lat,
            lng |-> IF Falsy(item.location.lng) THEN 0 ELSE item.location.lng,
            timestamp |-> item.timestamp,
            source |-> merged[k].sources,
            category |-> classify(item),
            intensity |-> calculateIntensity(merged[k], classify(item), AggNow),
            url |-> item.url,
            imageUrl |-> item.imageUrl,
            gdeltTone |-> item.gdeltTone,
            sourceCount |-> merged[k].sourceCount]]

\* Step 5 of aggregateNews: the filter on newsEvents.
isValidEvent_Any(event) == TRUE

isValidEvent(event) == event.lat # 0 /\ event.lng # 0

validEvents(newsEvents) == SelectSeq(newsEvents, isValidEvent)

\* ---- aggregateNews ----
\* What a pass has done so far.
NoOutcome ==
    [persisted |-> FALSE, clean |-> TRUE, inserted |-> 0,
     invalidated |-> "no", error |-> "none"]

\* What the previous pass left behind.
NoPass == [items |-> <<>>, geo |-> "unused", rows |-> {}, clean |-> FALSE]

AGParked ==
    /\ agPc = "parked"
    /\ agPass = 0
    /\ agProbe = 1
    /\ agSettled = [s \in SourceIds |-> NotStarted]
    /\ agPromises = [s \in SourceIds |-> NotStarted]
    /\ agAllItems = <<>>
    /\ agMerged = <<>>
    /\ agGeo = "unused"
    /\ agNewsEvents = <<>>
    /\ agValid = <<>>
    /\ agNextId = 1
    /\ agOutcome = NoOutcome
    /\ agPrev = NoPass

AGInit ==
    /\ agPc = "idle"
    /\ agPass = 0
    /\ agProbe = 1
    /\ agSettled = [s \in SourceIds |-> NotStarted]
    /\ agPromises = [s \in SourceIds |-> NotStarted]
    /\ agAllItems = <<>>
    /\ agMerged = <<>>
    /\ agGeo = "unused"
    /\ agNewsEvents = <<>>
    /\ agValid = <<>>
    /\ agNextId = 1
    /\ agOutcome = NoOutcome
    /\ agPrev = NoPass

\* A call of aggregateNews(), after the previous call has settled.
StartPass ==
    /\ agPc \in {"idle", "done", "rejected"}
    /\ agPass < MaxPasses
    /\ agPass' = agPass + 1
    /\ agPc' = "probing"
    /\ agProbe' = 1
    /\ agSettled' = [s \in SourceIds |-> NotStarted]
    /\ agPromises' = [s \in SourceIds |-> NotStarted]
    /\ agAllItems' = <<>>
    /\ agMerged' = <<>>
    /\ agGeo' = "unused"
    /\ agNewsEvents' = <<>>
    /\ agValid' = <<>>
    /\ agOutcome' = NoOutcome
    /\ agPrev' = [items |-> agAllItems, geo |-> agGeo, rows |-> stRows,
                  clean |-> agPc = "done" /\ agOutcome.clean]
    /\ UNCHANGED <<agNextId, stVars>>

\* One turn of the loop of fetchAllSources: await source.isAvailable() and,
\* if it answers true, start source.fetch().
Probe(s) ==
    /\ agPc = "probing"
    /\ agProbe = s
    /\ \E available \in Availability(s) :
          agPromises' = [agPromises EXCEPT ![s] = IF available THEN Pending ELSE Skipped]
    /\ agProbe' = s + 1
    /\ agPc' = IF s = Len(Sources) THEN "awaiting" ELSE "probing"
    /\ UNCHANGED <<agPass, agSettled, agAllItems, agMerged, agGeo, agNewsEvents,
                   agValid, agNextId, agOutcome, agPrev, stVars>>

\* A started source.fetch() settles.
FetchSettle(s) ==
    /\ agPc \in {"probing", "awaiting"}
    /\ agPromises[s] = Pending
    /\ \E settled \in FetchSettlements(s) :
          /\ agSettled' = [agSettled EXCEPT ![s] = settled]
          /\ agPromises' = [agPromises EXCEPT ![s] = FetchCatch(settled)]
    /\ UNCHANGED <<agPc, agPass, agProbe, agAllItems, agMerged, agGeo, agNewsEvents,
                   agValid, agNextId, agOutcome, agPrev, stVars>>

\* await Promise.all(fetchPromises) settles: it rejects as soon as one of
\* the promises has rejected and is fulfilled when all are fulfilled.  An
\* empty allItems makes aggregateNews return [] at once.
Collect ==
    /\ agPc = "awaiting"
    /\ IF \E s \in SourceIds : agPromises[s].state = "rejected"
       THEN /\ agPc' = "rejected"
            /\ agOutcome' = [agOutcome EXCEPT !.error = "fetch", !.clean = FALSE]
            /\ UNCHANGED agAllItems
       ELSE /\ \A s \in SourceIds : agPromises[s] # Pending
            /\ agAllItems' = ConcatResults(agPromises, 1)
            /\ UNCHANGED agOutcome
            /\ agPc' = IF ConcatResults(agPromises, 1) = <<>> THEN "done" ELSE "fetched"
    /\ UNCHANGED <<agPass, agProbe, agSettled, agPromises, agMerged, agGeo,
                   agNewsEvents, agValid, agNextId, agPrev, stVars>>

\* Steps 2 and 3 of aggregateNews: deduplicate, then geocode in place the
\* merged events without coordinates.  The geocoder is reachable or not for
\* the whole pass.  The promises of fetchAllSources are gone by now.
DeduplicateAndGeocode ==
    /\ agPc = "fetched"
    /\ LET merged == deduplicate(agAllItems, AggNow)
       IN \E geo \in IF \E k \in 1..Len(merged) : NeedsGeocoding(merged[k])
                     THEN {"up", "down"} ELSE {"unused"} :
             /\ agGeo' = geo
             /\ agMerged' = geocodeItems(merged, geo)
    /\ agPc' = "geocoded"
    /\ agSettled' = [s \in SourceIds |-> NotStarted]
    /\ agPromises' = [s \in SourceIds |-> NotStarted]
    /\ UNCHANGED <<agPass, agProbe, agAllItems, agNewsEvents, agValid, agNextId,
                   agOutcome, agPrev, stVars>>

\* Where aggregateNews goes after "await insertEvents(validEvents)": a
\* rejection leaves the function, else step 7 follows.
AfterPersist_ReturnAtOnce(threw) == IF threw THEN "rejected" ELSE "done"

AfterPersist(threw) == IF threw THEN "rejected" ELSE "stored"

\* Steps 4 to 6: convertToNewsEvents, the coordinate filter and, for a
\* non-empty validEvents, await insertEvents(validEvents), which is not
\* inside a try block: a rejection of insertEvents rejects aggregateNews.
ConvertAndPersist ==
    /\ agPc = "geocoded"
    /\ LET newsEvents == convertToNewsEvents(agMerged, agNextId)
           valid == validEvents(newsEvents)
       IN /\ agNewsEvents' = newsEvents
          /\ agValid' = valid
          /\ agNextId' = agNextId + Len(agMerged)
          /\ IF Len(valid) > 0
             THEN \E txFail \in TransactionFailures :
                  \E stmt \in StatementRuns(valid, txFail) :
                     LET r == insertEvents(stRows, valid, stmt, txFail)
                     IN /\ stRows' = r.rows
                        /\ agOutcome' =
                             [agOutcome EXCEPT
                                !.persisted = TRUE,
                                !.inserted = r.inserted,
                                !.clean = txFail = "none"
                                          /\ \A k \in 1..Len(stmt) : stmt[k] = "ok",
                                !.error = IF r.threw THEN "persist" ELSE "none"]
                        /\ agPc' = AfterPersist(r.threw)
             ELSE /\ agPc' = "stored"
                  /\ UNCHANGED <<stRows, agOutcome>>
    /\ UNCHANGED <<agPass, agProbe, agSettled, agPromises, agAllItems, agMerged,
                   agGeo, agPrev, stPc, stPrev, stLast>>

\* Step 7: await this.invalidateCaches(), whose body is inside a try block,
\* then return validEvents.
InvalidateCaches ==
    /\ agPc = "stored"
    /\ \E cacheUp \in BOOLEAN :
          agOutcome' = [agOutcome EXCEPT
                           !.invalidated = IF cacheUp THEN "done" ELSE "failed"]
    /\ agPc' = "done"
    /\ UNCHANGED <<agPass, agProbe, agSettled, agPromises, agAllItems, agMerged,
                   agGeo, agNewsEvents, agValid, agNextId, agPrev, stVars>>

AGStep ==
    \/ StartPass
    \/ \E s \in SourceIds : Probe(s)
    \/ \E s \in SourceIds : FetchSettle(s)
    \/ Collect
    \/ DeduplicateAndGeocode
    \/ ConvertAndPersist
    \/ InvalidateCaches

\* ---- claims about aggregateNews ----
RowIds(rows) == {r.id : r \in rows}

\* Both the previous pass and this one ran to their end without a failure,
\* over the same fetched items and with the same geocoder.
SecondRunOverUnchangedInput ==
    /\ agPass >= 2
    /\ agPc = "done"
    /\ agOutcome.clean
    /\ agPrev.clean
    /\ agAllItems = agPrev.items
    /\ agGeo = agPrev.geo

\* C1: after a second run of aggregateNews over an unchanged set of fetched
\* items the store holds the same rows as after the first run, one row per
\* event, and no re-seen event's source count has decreased.
C1_SecondRunCreatesNoDuplicates ==
    SecondRunOverUnchangedInput =>
        /\ RowIds(stRows) = RowIds(agPrev.rows)
        /\ \A r \in stRows : \A p \in agPrev.rows :
              r.id = p.id => r.source_count >= p.source_count

\* What the adapters' fetches delivered: the items of the fulfilled ones.
Delivered ==
    [s \in SourceIds |->
        IF agSettled[s].state = "fulfilled" THEN agSettled[s] ELSE NotStarted]

\* fetchAllSources has just returned allItems.
Collected == agPc = "fetched" \/ (agPc = "done" /\ agAllItems = <<>>)

\* C6: a source whose fetch() rejects contributes an empty list; the pass
\* waits for every started fetch, collects the items of all the fulfilled
\* ones in source order, and is never rejected by a fetch rejection.
C6_RejectedFetchIsEmptyResult ==
    /\ agOutcome.error # "fetch"
    /\ Collected =>
          /\ \A s \in SourceIds : agPromises[s] # Pending
          /\ agAllItems = ConcatResults(Delivered, 1)

\* A pass collected the items of a fulfilled fetch although another fetch
\* of the same pass rejected.
C6_Witness ==
    /\ Collected
    /\ \E s \in SourceIds : agSettled[s].state = "rejected"
    /\ \E s \in SourceIds : agSettled[s].state = "fulfilled" /\ agSettled[s].value # <<>>
    /\ agAllItems # <<>>

\* C7: aggregateNews never rejects, and a pass that fetched items runs all
\* its stages up to and including the cache invalidation before it returns.
C7_PassNeverRejects ==
    /\ agPc # "rejected"
    /\ (agPc = "done" /\ agAllItems # <<>>) => agOutcome.invalidated # "no"

\* C8: no event handed to insertEvents has the sentinel coordinate
\* lat = 0 together with lng = 0.
C8_PersistedEventsHaveCoordinates ==
    agOutcome.persisted =>
        \A k \in 1..Len(agValid) : ~(agValid[k].lat = 0 /\ agValid[k].lng = 0)

\* A pass handed events to insertEvents, one of them located by the
\* geocoder, while it dropped an unresolved event left at (0, 0).
C8_Witness ==
    /\ agOutcome.persisted
    /\ \E k \in 1..Len(agValid) : agValid[k].lat = Gazetteer["Paris"].lat
    /\ \E k \in 1..Len(agNewsEvents) :
          agNewsEvents[k].lat = 0 /\ agNewsEvents[k].lng = 0
    /\ Len(agValid) < Len(agNewsEvents)

\* ========================================================================
\* CacheService
\* ========================================================================
\* The keys of the model: two event queries and one heatmap query
\* (CacheService.keys).
CacheKeys == {"events:a", "events:b", "heatmap:a"}

\* What client.get answers for a key that is not stored.
RedisNil == "(nil)"

\* The patterns passed to deletePattern, and client.keys(pattern).
CachePatterns == {"events:*", "heatmap:*"}

KeysMatching(store, pattern) ==
    {k \in CacheKeys :
        /\ store[k] # RedisNil
        /\ \/ pattern = "events:*" /\ k \in {"events:a", "events:b"}
           \/ pattern = "heatmap:*" /\ k = "heatmap:a"}

\* The values handed to the cache: null, a number, an object, and an
\* object that JSON.stringify refuses (a cycle).
JsNull == "<null>"
JsValues == {JsNull, "<0>", "<object>", "<cyclic>"}

\* JSON.stringify(value): the text, or a TypeError.
JsonStringify(v) ==
    CASE v = JsNull -> [threw |-> FALSE, text |-> "null"]
      [] v = "<0>" -> [threw |-> FALSE, text |-> "0"]
      [] v = "<object>" -> [threw |-> FALSE, text |-> "{}"]
      [] OTHER -> [threw |-> TRUE, text |-> ""]

\* JSON.parse(text): the value, or a SyntaxError.
JsonParse(text) ==
    CASE text = "null" -> [threw |-> FALSE, value |-> JsNull]
      [] text = "0" -> [threw |-> FALSE, value |-> "<0>"]
      [] text = "{}" -> [threw |-> FALSE, value |-> "<object>"]
      [] OTHER -> [threw |-> TRUE, value |-> JsNull]

\* The backend faults of one call: its reads (client.get, client.keys) or
\* its writes (client.setex, client.del) are rejected.
CacheFaults == [read : BOOLEAN, write : BOOLEAN]
NoFault == [read |-> FALSE, write |-> FALSE]

\* ---- get ----
\* The try block of get.
GetBody(store, key, fault) ==
    IF fault.read THEN [threw |-> TRUE, value |-> JsNull]
    ELSE IF store[key] # RedisNil /\ store[key] # ""
    THEN JsonParse(store[key])
    ELSE [threw |-> FALSE, value |-> JsNull]

\* The catch block of get: log and return null.
GetCatch_Rethrow(r) == r

GetCatch(r) == IF r.threw THEN [threw |-> FALSE, value |-> JsNull] ELSE r

cacheGet(store, key, fault) == GetCatch(GetBody(store, key, fault))

\* ---- set, delete, deletePattern ----
\* The catch block of the three write operations: log and return.
WriteCatch(r, store) == IF r.threw THEN [threw |-> FALSE, store |-> store] ELSE r

cacheSet(store, key, value, fault) ==
    WriteCatch(
        IF JsonStringify(value).threw \/ fault.write
        THEN [threw |-> TRUE, store |-> store]
        ELSE [threw |-> FALSE,
              store |-> [store EXCEPT ![key] = JsonStringify(value).text]],
        store)

cacheDelete(store, key, fault) ==
    WriteCatch(
        IF fault.write
        THEN [threw |-> TRUE, store |-> store]
        ELSE [threw |-> FALSE, store |-> [store EXCEPT ![key] = RedisNil]],
        store)

cacheDeletePattern(store, pattern, fault) ==
    WriteCatch(
        IF fault.read THEN [threw |-> TRUE, store |-> store]
        ELSE IF KeysMatching(store, pattern) = {}
        THEN [threw |-> FALSE, store |-> store]
        ELSE IF fault.write THEN [threw |-> TRUE, store |-> store]
        ELSE [threw |-> FALSE,
              store |-> [k \in CacheKeys |->
                            IF k \in KeysMatching(store, pattern)
                            THEN RedisNil ELSE store[k]]],
        store)

\* ---- getOrSet ----
\* How fetchFn() settles: with a value, or with a rejection.
FetchFnOutcomes ==
    [threw : {FALSE}, value : JsValues] \cup {[threw |-> TRUE, value |-> JsNull]}

\* getOrSet(key, fetchFn): the value returned, the number of calls of
\* fetchFn and the store afterwards.
cacheGetOrSet(store, key, fn, fault) ==
    LET cached == cacheGet(store, key, fault)
    IN IF cached.value # JsNull
       THEN [threw |-> FALSE, value |-> cached.value, fnCalls |-> 0, store |-> store]
       ELSE IF fn.threw
       THEN [threw |-> TRUE, value |-> JsNull, fnCalls |-> 1, store |-> store]
       ELSE [threw |-> FALSE, value |-> fn.value, fnCalls |-> 1,
             store |-> cacheSet(store, key, fn.value, fault).store]

\* ---- the specification of the cache ----
NoCacheCall ==
    [op |-> "none", key |-> "", arg |-> JsNull, fault |-> NoFault, stored |-> RedisNil,
     fnThrew |-> FALSE, threw |-> FALSE, value |-> JsNull, fnCalls |-> 0,
     after |-> RedisNil]

CAParked ==
    /\ caStore = [k \in CacheKeys |-> RedisNil]
    /\ caLast = NoCacheCall
    /\ caPc = "parked"

CAInit ==
    /\ caStore = [k \in CacheKeys |-> RedisNil]
    /\ caLast = NoCacheCall
    /\ caPc = "ready"

CacheGetCall ==
    /\ caPc = "ready"
    /\ \E key \in CacheKeys, fault \in CacheFaults :
          LET r == cacheGet(caStore, key, fault)
          IN caLast' = [NoCacheCall EXCEPT !.op = "get", !.key = key, !.fault = fault,
                                           !.stored = caStore[key],
                                           !.after = caStore[key],
                                           !.threw = r.threw, !.value = r.value]
    /\ UNCHANGED <<caStore, caPc>>

CacheSetCall ==
    /\ caPc = "ready"
    /\ \E key \in CacheKeys, value \in JsValues, fault \in CacheFaults :
          LET r == cacheSet(caStore, key, value, fault)
          IN /\ caStore' = r.store
             /\ caLast' = [NoCacheCall EXCEPT !.op = "set", !.key = key, !.arg = value,
                                              !.fault = fault, !.stored = caStore[key],
                                              !.after = r.store[key],
                                              !.threw = r.threw]
    /\ UNCHANGED caPc

CacheDeleteCall ==
    /\ caPc = "ready"
    /\ \E key \in CacheKeys, fault \in CacheFaults :
          LET r == cacheDelete(caStore, key, fault)
          IN /\ caStore' = r.store
             /\ caLast' = [NoCacheCall EXCEPT !.op = "delete", !.key = key,
                                              !.fault = fault, !.stored = caStore[key],
                                              !.after = r.store[key],
                                              !.threw = r.threw]
    /\ UNCHANGED caPc

CacheDeletePatternCall ==
    /\ caPc = "ready"
    /\ \E pattern \in CachePatterns, fault \in CacheFaults :
          LET r == cacheDeletePattern(caStore, pattern, fault)
          IN /\ caStore' = r.store
             /\ caLast' = [NoCacheCall EXCEPT !.op = "deletePattern", !.key = pattern,
                                              !.fault = fault, !.threw = r.threw]
    /\ UNCHANGED caPc

CacheGetOrSetCall ==
    /\ caPc = "ready"
    /\ \E key \in CacheKeys, fn \in FetchFnOutcomes, fault \in CacheFaults :
          LET r == cacheGetOrSet(caStore, key, fn, fault)
          IN /\ caStore' = r.store
             /\ caLast' = [NoCacheCall EXCEPT !.op = "getOrSet", !.key = key,
                                              !.arg = fn.value, !.fnThrew = fn.threw,
                                              !.fault = fault, !.stored = caStore[key],
                                              !.after = r.store[key],
                                              !.threw = r.threw, !.value = r.value,
                                              !.fnCalls = r.fnCalls]
    /\ UNCHANGED caPc

\* The backend drops a key whose time to live has run out.
CacheExpire ==
    /\ caPc = "ready"
    /\ \E key \in CacheKeys :
          /\ caStore[key] # RedisNil
          /\ caStore' = [caStore EXCEPT ![key] = RedisNil]
    /\ UNCHANGED <<caLast, caPc>>

CAStep ==
    \/ CacheGetCall
    \/ CacheSetCall
    \/ CacheDeleteCall
    \/ CacheDeletePatternCall
    \/ CacheGetOrSetCall
    \/ CacheExpire

\* C11: get, set, delete and deletePattern never raise; with a failing
\* backend get answers null, as it does for a key that is not stored, and
\* the write operations return normally.
C11_CacheNeverRaises ==
    caLast.op \in {"get", "set", "delete", "deletePattern"} =>
        /\ ~caLast.threw
        /\ (caLast.op = "get" /\ caLast.fault.read) =>
              caLast.value = cacheGet([k \in CacheKeys |-> RedisNil], caLast.key, NoFault).value

\* get was called for a stored key while the backend failed, and
\* answered null.
C11_Witness ==
    /\ caLast.op = "get"
    /\ caLast.fault.read
    /\ caLast.stored \notin {RedisNil, "null"}
    /\ caLast.value = JsNull
    /\ ~caLast.threw

\* C12: getOrSet returns the cached value without calling fetchFn when the
\* key is present; otherwise it calls fetchFn once, stores the result under
\* the key (when the write goes through) and returns it.
C12_GetOrSet ==
    (caLast.op = "getOrSet" /\ ~caLast.fnThrew) =>
        IF caLast.stored # RedisNil /\ ~caLast.fault.read
        THEN /\ caLast.fnCalls = 0
             /\ caLast.value = JsonParse(caLast.stored).value
        ELSE /\ caLast.fnCalls = 1
             /\ caLast.value = caLast.arg
             /\ ~caLast.threw
             /\ (~caLast.fault.write /\ ~JsonStringify(caLast.arg).threw) =>
                   caLast.after = JsonStringify(caLast.arg).text

\* ========================================================================
\* GeocodingService
\* ========================================================================
\* The location names tried: an empty name, a city in two spellings, and
\* a name that is not a place.
GeoNames == {"", "Paris", " PARIS ", "Atlantis"}

\* locationName.toLowerCase().trim()
NormalizeName(name) ==
    CASE name \in {"Paris", " PARIS "} -> "paris"
      [] name = "Atlantis" -> "atlantis"
      [] OTHER -> ""

NormalizedNames == {"", "paris", "atlantis"}

\* CacheService.keys.geocoding(normalizedName)
geocodingKey(normalized) ==
    CASE normalized = "paris" -> "geocoding:paris"
      [] normalized = "atlantis" -> "geocoding:atlantis"
      [] OTHER -> "geocoding:"

GeoKeys == {geocodingKey(n) : n \in NormalizedNames}

\* The GeocodingResult built from the first element of response.data, and
\* its texts and rows: JSON.stringify, JSON.parse, the INSERT of
\* saveToDbCache and the SELECT of getFromDbCache.
ParisResult == "<Paris, France>"

GeoStringify(result) ==
    IF result = ParisResult THEN [threw |-> FALSE, text |-> "{Paris, France}"]
    ELSE JsonStringify(result)

GeoParse(text) ==
    IF text = "{Paris, France}" THEN [threw |-> FALSE, value |-> ParisResult]
    ELSE JsonParse(text)

NoRow == "(no row)"

RowOfResult(result) == IF result = ParisResult THEN "row(Paris, France)" ELSE NoRow

ResultOfRow(row) == IF row = "row(Paris, France)" THEN ParisResult ELSE JsNull

\* What the Nominatim request (with its retries) comes to: a match, an empty
\* list, or an error after the last retry.
ExternalOutcomes(name) ==
    IF NormalizeName(name) = "paris" THEN {"found", "failed"} ELSE {"empty", "failed"}

\* The faults of one call: Redis reads and writes, durable-store reads and
\* writes.
GeoFaults == [redisRead : BOOLEAN, redisWrite : BOOLEAN, dbRead : BOOLEAN,
              dbWrite : BOOLEAN]

NoGeoFault == [redisRead |-> FALSE, redisWrite |-> FALSE, dbRead |-> FALSE,
               dbWrite |-> FALSE]

\* cache.get(cacheKey) and cache.set(cacheKey, result, 86400) of cache.ts,
\* on the geocoding keys.
geoCacheGet(redis, key, fault) ==
    LET r == IF fault.redisRead THEN [threw |-> TRUE, value |-> JsNull]
             ELSE IF redis[key] # RedisNil /\ redis[key] # ""
             THEN GeoParse(redis[key])
             ELSE [threw |-> FALSE, value |-> JsNull]
    IN GetCatch(r)

geoCacheSet(redis, key, result, fault) ==
    WriteCatch(
        IF GeoStringify(result).threw \/ fault.redisWrite
        THEN [threw |-> TRUE, store |-> redis]
        ELSE [threw |-> FALSE,
              store |-> [redis EXCEPT ![key] = GeoStringify(result).text]],
        redis).store

\* getFromDbCache(normalizedName): the mapped row, or null on no row and on
\* a query error.
getFromDbCache(db, normalized, fault) ==
    IF fault.dbRead THEN JsNull
    ELSE IF db[normalized] # NoRow THEN ResultOfRow(db[normalized])
    ELSE JsNull

\* saveToDbCache(normalizedName, result): the upsert, skipped on a query
\* error.
saveToDbCache(db, normalized, result, fault) ==
    IF fault.dbWrite THEN db ELSE [db EXCEPT ![normalized] = RowOfResult(result)]

\* "Also cache in Redis for faster access": the copy of a durable-store hit.
CopyDbHit_Skip(redis, key, result, fault) == [redis |-> redis, log |-> <<>>]

CopyDbHit(redis, key, result, fault) ==
    [redis |-> geoCacheSet(redis, key, result, fault), log |-> <<"redis.set">>]

\* geocode(name) up to the Nominatim request: the empty-name test, the
\* Redis cache and the durable-store cache.  "settled" tells whether geocode
\* has returned; otherwise the request is the next step.
geocodeCaches(redis, db, name, fault) ==
    IF name = "" \/ NormalizeName(name) = ""
    THEN [settled |-> TRUE, result |-> JsNull, redis |-> redis, log |-> <<>>]
    ELSE LET key == geocodingKey(NormalizeName(name))
             cached == geoCacheGet(redis, key, fault).value
             dbResult == getFromDbCache(db, NormalizeName(name), fault)
         IN IF cached # JsNull
            THEN [settled |-> TRUE, result |-> cached, redis |-> redis,
                  log |-> <<"redis.get">>]
            ELSE IF dbResult # JsNull
            THEN [settled |-> TRUE, result |-> dbResult,
                  redis |-> CopyDbHit(redis, key, dbResult, fault).redis,
                  log |-> <<"redis.get", "db.select">>
                          \o CopyDbHit(redis, key, dbResult, fault).log]
            ELSE [settled |-> FALSE, result |-> JsNull, redis |-> redis,
                  log |-> <<"redis.get", "db.select">>]

\* The catch block around the Nominatim request: log and return null.
GeoCatch_Rethrow(r) == r

GeoCatch(r) == IF r.threw THEN [r EXCEPT !.threw = FALSE, !.result = JsNull] ELSE r

\* geocode(name) from the Nominatim request on: acquire the rate limiter,
\* send the request with retries, and write a match to both caches.
geocodeExternal(redis, db, name, outcome, fault) ==
    LET key == geocodingKey(NormalizeName(name))
    IN GeoCatch(
        CASE outcome = "failed" ->
               [threw |-> TRUE, result |-> JsNull, redis |-> redis, db |-> db,
                log |-> <<"limiter.acquire", "http.get">>]
          [] outcome = "empty" ->
               [threw |-> FALSE, result |-> JsNull, redis |-> redis, db |-> db,
                log |-> <<"limiter.acquire", "http.get">>]
          [] outcome = "found" ->
               [threw |-> FALSE, result |-> ParisResult,
                redis |-> geoCacheSet(redis, key, ParisResult, fault),
                db |-> saveToDbCache(db, NormalizeName(name), ParisResult, fault),
                log |-> <<"limiter.acquire", "http.get", "redis.set", "db.insert">>])

\* geocode(name), whole.
geocodeCall(redis, db, name, outcome, fault) ==
    LET c == geocodeCaches(redis, db, name, fault)
        e == geocodeExternal(c.redis, db, name, outcome, fault)
    IN IF c.settled
       THEN [threw |-> FALSE, result |-> c.result, redis |-> c.redis, db |-> db,
             log |-> c.log \o <<"return">>]
       ELSE [threw |-> e.threw, result |-> e.result, redis |-> e.redis, db |-> e.db,
             log |-> c.log \o e.log \o <<"return">>]

\* ---- the specification of geocode ----
EmptyRedis == [k \in GeoKeys |-> RedisNil]
EmptyGeoDb == [n \in NormalizedNames |-> NoRow]

NoGeoCall ==
    [called |-> FALSE, name |-> "", outcome |-> "failed", fault |-> NoGeoFault,
     redisBefore |-> EmptyRedis, dbBefore |-> EmptyGeoDb,
     redisAfter |-> EmptyRedis, dbAfter |-> EmptyGeoDb,
     result |-> JsNull, threw |-> FALSE, log |-> <<>>]

GEParked ==
    /\ gePc = "parked"
    /\ geRedis = EmptyRedis
    /\ geDb = EmptyGeoDb
    /\ geLast = NoGeoCall

GEInit ==
    /\ gePc = "ready"
    /\ geRedis = EmptyRedis
    /\ geDb = EmptyGeoDb
    /\ geLast = NoGeoCall

\* One call of geocode(name), from its first line to its return.
GeocodeCall ==
    /\ gePc = "ready"
    /\ \E name \in GeoNames, fault \in GeoFaults :
       \E outcome \in ExternalOutcomes(name) :
          LET r == geocodeCall(geRedis, geDb, name, outcome, fault)
          IN /\ geRedis' = r.redis
             /\ geDb' = r.db
             /\ geLast' = [called |-> TRUE, name |-> name, outcome |-> outcome,
                           fault |-> fault,
                           redisBefore |-> geRedis, dbBefore |-> geDb,
                           redisAfter |-> r.redis, dbAfter |-> r.db,
                           result |-> r.result, threw |-> r.threw, log |-> r.log]
    /\ UNCHANGED gePc

\* Redis drops a geocoding key after its 24 hours.
GeoExpire ==
    /\ gePc = "ready"
    /\ \E key \in GeoKeys :
          /\ geRedis[key] # RedisNil
          /\ geRedis' = [geRedis EXCEPT ![key] = RedisNil]
    /\ UNCHANGED <<gePc, geDb, geLast>>

GEStep == GeocodeCall \/ GeoExpire

\* ---- claims about geocode ----
InLog(x) == \E i \in 1..Len(geLast.log) : geLast.log[i] = x

\* x occurs in the log of the last call, and before y when y occurs.
LogBefore(x, y) ==
    \E i \in 1..Len(geLast.log) :
        /\ geLast.log[i] = x
        /\ \A j \in 1..Len(geLast.log) : geLast.log[j] = y => i < j

LastKey == geocodingKey(NormalizeName(geLast.name))

\* The last call found its name in the Redis cache / in the durable store.
LastRedisHit == ~geLast.fault.redisRead /\ geLast.redisBefore[LastKey] # RedisNil

LastDbHit ==
    ~geLast.fault.dbRead /\ geLast.dbBefore[NormalizeName(geLast.name)] # NoRow

LastNamed == geLast.called /\ NormalizeName(geLast.name) # ""

\* C13: geocode consults the Redis cache first, the durable store second
\* and Nominatim only when both miss; a durable-store hit is copied into
\* Redis, and a match from Nominatim is written to both caches before
\* geocode returns.
C13_GeocodeLayerOrder ==
    LastNamed =>
        /\ geLast.log[1] = "redis.get"
        /\ InLog("db.select") <=> ~LastRedisHit
        /\ InLog("http.get") <=> (~LastRedisHit /\ ~LastDbHit)
        /\ InLog("http.get") => LogBefore("redis.get", "db.select")
                                /\ LogBefore("db.select", "http.get")
        /\ (~LastRedisHit /\ LastDbHit) =>
              /\ geLast.result = ResultOfRow(geLast.dbBefore[NormalizeName(geLast.name)])
              /\ LogBefore("redis.set", "return")
              /\ ~geLast.fault.redisWrite =>
                    geLast.redisAfter[LastKey] = GeoStringify(geLast.result).text
        /\ (InLog("http.get") /\ geLast.outcome = "found") =>
              /\ geLast.result = ParisResult
              /\ LogBefore("redis.set", "return")
              /\ LogBefore("db.insert", "return")
              /\ ~geLast.fault.redisWrite =>
                    geLast.redisAfter[LastKey] = GeoStringify(ParisResult).text
              /\ ~geLast.fault.dbWrite =>
                    geLast.dbAfter[NormalizeName(geLast.name)] = RowOfResult(ParisResult)

\* A call missed Redis, hit the durable store and copied the hit to Redis.
C13_Witness ==
    /\ LastNamed
    /\ ~LastRedisHit
    /\ LastDbHit
    /\ geLast.redisBefore[LastKey] = RedisNil
    /\ geLast.redisAfter[LastKey] = GeoStringify(ParisResult).text
    /\ ~InLog("http.get")

\* The last call met one of the failures named by C14.
LastFailure ==
    \/ NormalizeName(geLast.name) = ""
    \/ InLog("http.get") /\ geLast.outcome \in {"empty", "failed"}
    \/ geLast.fault.redisRead \/ geLast.fault.redisWrite
    \/ geLast.fault.dbRead \/ geLast.fault.dbWrite

LastWroteNothing ==
    /\ ~InLog("redis.set")
    /\ ~InLog("db.insert")
    /\ geLast.redisAfter = geLast.redisBefore
    /\ geLast.dbAfter = geLast.dbBefore

\* C14 as stated: geocode never rejects, and an empty name, no match, a
\* cache or durable-store error and a failed external call all yield null
\* and write no cache entry.
C14_FailuresYieldNullAndNoWrite ==
    geLast.called =>
        /\ ~geLast.threw
        /\ LastFailure => (geLast.result = JsNull /\ LastWroteNothing)

\* C14 amended: geocode never rejects; an empty name, and a lookup that
\* misses both caches (a read error counts as a miss) and gets no match or
\* an error from Nominatim, yield null and write no cache entry.
C14_NeverRejectsMissYieldsNull ==
    geLast.called =>
        /\ ~geLast.threw
        /\ (\/ NormalizeName(geLast.name) = ""
            \/ InLog("http.get") /\ geLast.outcome \in {"empty", "failed"}) =>
              (geLast.result = JsNull /\ LastWroteNothing)

\* Both cache reads failed and the Nominatim request failed after its
\* retries: the call returned null and wrote nothing.
C14_Witness ==
    /\ LastNamed
    /\ geLast.fault.redisRead
    /\ geLast.fault.dbRead
    /\ geLast.outcome = "failed"
    /\ InLog("http.get")
    /\ geLast.result = JsNull
    /\ ~geLast.threw
    /\ LastWroteNothing

\* ---- geocodeBatch ----
\* Bound: the longest list of names passed to geocodeBatch.
MaxNames == 2

\* The faults tried in the batch runs: none, or every cache operation
\* failing.
BatchFaults ==
    {NoGeoFault,
     [redisRead |-> TRUE, redisWrite |-> TRUE, dbRead |-> TRUE, dbWrite |-> TRUE]}

\* The caches that earlier calls of geocode leave behind.
SeededGeoStores ==
    {[redis |-> geocodeCall(EmptyRedis, EmptyGeoDb, "Paris", "found", f).redis,
      db |-> geocodeCall(EmptyRedis, EmptyGeoDb, "Paris", "found", f).db] :
        f \in GeoFaults}

\* The first loop of geocodeBatch: the names that cache.get does not
\* answer, in order.
RECURSIVE UncachedNames(_, _, _)
UncachedNames(redis, names, fault) ==
    IF names = <<>> THEN <<>>
    ELSE LET key == geocodingKey(NormalizeName(Head(names)))
             rest == UncachedNames(redis, Tail(names), fault)
         IN IF geoCacheGet(redis, key, fault).value # JsNull
            THEN rest ELSE <<Head(names)>> \o rest

\* "const result = await this.geocode(name)" in the second loop: the lookup
\* of uncachedLocations[j] starts when the loop has reached j.
LookupMayStart_AllAtOnce(j, index) == TRUE

LookupMayStart(j, index) == j = index

GBParked ==
    /\ gbPc = "parked"
    /\ gbNames = <<>>
    /\ gbUncached = <<>>
    /\ gbIndex = 1
    /\ gbStarted = {}
    /\ gbInflight = {}
    /\ gbReturned = {}
    /\ gbFault = <<>>
    /\ gbResults = <<>>

GBInit ==
    /\ gbPc = "idle"
    /\ gbNames = <<>>
    /\ gbUncached = <<>>
    /\ gbIndex = 1
    /\ gbStarted = {}
    /\ gbInflight = {}
    /\ gbReturned = {}
    /\ gbFault = <<>>
    /\ gbResults = <<>>
    /\ gePc = "batch"
    /\ \E seed \in SeededGeoStores : geRedis = seed.redis /\ geDb = seed.db
    /\ geLast = NoGeoCall

\* geocodeBatch(names) is called and runs its first loop.
BatchCall ==
    /\ gbPc = "idle"
    /\ \E names \in BatchesUpTo(GeoNames, MaxNames), fault \in BatchFaults :
          /\ gbNames' = names
          /\ gbUncached' = UncachedNames(geRedis, names, fault)
    /\ gbPc' = "looping"
    /\ gbIndex' = 1
    /\ gbFault' = [j \in 1..Len(gbUncached') |-> NoGeoFault]
    /\ gbResults' = [j \in 1..Len(gbUncached') |-> JsNull]
    /\ UNCHANGED <<gbStarted, gbInflight, gbReturned, geVars>>

\* The lookup of uncachedLocations[j] starts: geocode runs up to its
\* Nominatim request, or returns from a cache.
LookupStart(j) ==
    /\ gbPc = "looping"
    /\ j \in 1..Len(gbUncached)
    /\ j \notin gbStarted
    /\ LookupMayStart(j, gbIndex)
    /\ \E fault \in BatchFaults :
          LET c == geocodeCaches(geRedis, geDb, gbUncached[j], fault)
          IN /\ gbFault' = [gbFault EXCEPT ![j] = fault]
             /\ geRedis' = c.redis
             /\ gbStarted' = gbStarted \cup {j}
             /\ IF c.settled
                THEN /\ gbReturned' = gbReturned \cup {j}
                     /\ gbResults' = [gbResults EXCEPT ![j] = c.result]
                     /\ UNCHANGED gbInflight
                ELSE /\ gbInflight' = gbInflight \cup {j}
                     /\ UNCHANGED <<gbReturned, gbResults>>
    /\ UNCHANGED <<gbPc, gbNames, gbUncached, gbIndex, gePc, geDb, geLast>>

\* The Nominatim request of lookup j settles and geocode returns.
LookupFinish(j) ==
    /\ gbPc = "looping"
    /\ j \in gbInflight
    /\ \E outcome \in ExternalOutcomes(gbUncached[j]) :
          LET e == geocodeExternal(geRedis, geDb, gbUncached[j], outcome, gbFault[j])
          IN /\ geRedis' = e.redis
             /\ geDb' = e.db
             /\ gbResults' = [gbResults EXCEPT ![j] = e.result]
    /\ gbInflight' = gbInflight \ {j}
    /\ gbReturned' = gbReturned \cup {j}
    /\ UNCHANGED <<gbPc, gbNames, gbUncached, gbIndex, gbStarted, gbFault, gePc,
                   geLast>>

\* await sleep(1100) after the lookup of the current name has returned:
\* the loop moves to the next name.
BatchSleepDone ==
    /\ gbPc = "looping"
    /\ gbIndex \in gbReturned
    /\ gbIndex' = gbIndex + 1
    /\ UNCHANGED <<gbPc, gbNames, gbUncached, gbStarted, gbInflight, gbReturned,
                   gbFault, gbResults, geVars>>

\* The second loop is over: geocodeBatch returns results.
BatchReturn ==
    /\ gbPc = "looping"
    /\ gbIndex > Len(gbUncached)
    /\ gbPc' = "done"
    /\ UNCHANGED <<gbNames, gbUncached, gbIndex, gbStarted, gbInflight, gbReturned,
                   gbFault, gbResults, geVars>>

GBStep ==
    \/ BatchCall
    \/ \E j \in 1..MaxNames : LookupStart(j)
    \/ \E j \in 1..MaxNames : LookupFinish(j)
    \/ BatchSleepDone
    \/ BatchReturn

\* C15: geocodeBatch resolves its names one after another: at most one
\* Nominatim request of the batch is in flight, and a lookup starts only
\* after all the lookups before it have returned.
C15_BatchIsSequential ==
    /\ Cardinality(gbInflight) <= 1
    /\ \A j \in gbStarted : \A i \in 1..(j - 1) : i \in gbReturned
    /\ \A j \in gbInflight : \A i \in gbStarted : i # j => i \in gbReturned

\* The second name's Nominatim request is in flight after the first name
\* was resolved by a Nominatim request of its own.
C15_Witness ==
    /\ gbPc = "looping"
    /\ Len(gbUncached) >= 2
    /\ 2 \in gbInflight
    /\ 1 \in gbReturned
    /\ gbResults[1] = ParisResult
    /\ gbFault[1].redisWrite

\* ========================================================================
\* withRetry
\* ========================================================================
\* defaultOptions.baseDelayMs
baseDelayMs == 1000

\* Bound: the largest maxRetries tried.
MaxRetriesTried == 3

\* The values of maxDelayMs tried: the default and one below the first
\* backoff.
MaxDelays == {30000, 1500}

\* Math.random() * 1000, in whole milliseconds.
Jitters == {0, 500, 999}

\* The substrings that isRetryableError looks for in the lower-cased
\* message.
RetryableMarks ==
    {"econnreset", "etimedout", "enotfound", "socket hang up", "network",
     "rate limit", "429", "503", "502"}

\* What an attempt can throw: an Error whose message holds some of the
\* marks, or a value that is not an Error.
ThrownValues ==
    { [isError |-> TRUE, marks |-> {"econnreset"}],
      [isError |-> TRUE, marks |-> {"429", "rate limit"}],
      [isError |-> TRUE, marks |-> {}],
      [isError |-> FALSE, marks |-> {"network"}] }

isRetryableError(error) == error.isError /\ error.marks \cap RetryableMarks # {}

RECURSIVE Pow2(_)
Pow2(n) == IF n = 0 THEN 1 ELSE 2 * Pow2(n - 1)

\* Math.min(baseDelayMs * 2^attempt + jitter, maxDelayMs)
BackoffDelay_Uncapped(attempt, jitter, maxDelayMs) ==
    baseDelayMs * Pow2(attempt) + jitter

BackoffDelay(attempt, jitter, maxDelayMs) ==
    Min(baseDelayMs * Pow2(attempt) + jitter, maxDelayMs)

\* The catch block's test: attempt === opts.maxRetries || !shouldRetry(error)
GivesUp_LastAttemptOnly(attempt, error, opts) == attempt = opts.maxRetries

GivesUp(attempt, error, opts) ==
    attempt = opts.maxRetries \/ ~isRetryableError(error)

NoError == [isError |-> FALSE, marks |-> {}, attempt |-> -1]

WRParked ==
    /\ wrPc = "parked"
    /\ wrOpts = [maxRetries |-> 0, maxDelayMs |-> 0]
    /\ wrAttempt = 0
    /\ wrCalls = 0
    /\ wrErrors = <<>>
    /\ wrSleeps = <<>>
    /\ wrThrown = NoError

\* withRetry(operation, name, options) is called: the first attempt is
\* under way.
WRInit ==
    /\ wrPc = "calling"
    /\ wrOpts \in [maxRetries : 0..MaxRetriesTried, maxDelayMs : MaxDelays]
    /\ wrAttempt = 0
    /\ wrCalls = 1
    /\ wrErrors = <<>>
    /\ wrSleeps = <<>>
    /\ wrThrown = NoError

\* await operation() is fulfilled: withRetry returns its value.
AttemptSucceeds ==
    /\ wrPc = "calling"
    /\ wrPc' = "returned"
    /\ UNCHANGED <<wrOpts, wrAttempt, wrCalls, wrErrors, wrSleeps, wrThrown>>

\* await operation() rejects: the catch block rethrows, or sleeps before
\* the next attempt.
AttemptFails ==
    /\ wrPc = "calling"
    /\ \E thrown \in ThrownValues, jitter \in Jitters :
          LET error == [isError |-> thrown.isError, marks |-> thrown.marks,
                        attempt |-> wrAttempt]
          IN /\ wrErrors' = Append(wrErrors, error)
             /\ IF GivesUp(wrAttempt, error, wrOpts)
                THEN /\ wrPc' = "threw"
                     /\ wrThrown' = error
                     /\ UNCHANGED wrSleeps
                ELSE /\ wrPc' = "sleeping"
                     /\ wrSleeps' = Append(wrSleeps,
                                           BackoffDelay(wrAttempt, jitter,
                                                        wrOpts.maxDelayMs))
                     /\ UNCHANGED wrThrown
    /\ UNCHANGED <<wrOpts, wrAttempt, wrCalls>>

\* await sleep(delay) is over: the loop goes to the next attempt and calls
\* operation() again.
BackoffOver ==
    /\ wrPc = "sleeping"
    /\ wrPc' = "calling"
    /\ wrAttempt' = wrAttempt + 1
    /\ wrCalls' = wrCalls + 1
    /\ UNCHANGED <<wrOpts, wrErrors, wrSleeps, wrThrown>>

WRStep == AttemptSucceeds \/ AttemptFails \/ BackoffOver

\* C16: when the first failure is classified non-retryable, withRetry has
\* invoked the operation once, has not slept, and rethrows that error.
C16_NonRetryablePropagatesAtOnce ==
    (Len(wrErrors) >= 1 /\ ~isRetryableError(wrErrors[1])) =>
        /\ wrPc = "threw"
        /\ wrCalls = 1
        /\ wrSleeps = <<>>
        /\ wrThrown = wrErrors[1]

\* A call that was allowed retries rethrew a non-retryable first failure.
C16_Witness ==
    /\ wrPc = "threw"
    /\ wrOpts.maxRetries >= 2
    /\ wrCalls = 1
    /\ wrErrors[1].isError
    /\ wrErrors[1].marks = {}
    /\ wrThrown = wrErrors[1]

\* C17: when every attempt fails with a retryable error, withRetry invokes
\* the operation maxRetries + 1 times and throws the last error; it never
\* invokes the operation after a success; no backoff sleep is longer than
\* maxDelayMs.
C17_BoundedRetries ==
    /\ wrCalls <= wrOpts.maxRetries + 1
    /\ (wrPc = "threw" /\ \A k \in 1..Len(wrErrors) : isRetryableError(wrErrors[k])) =>
          /\ wrCalls = wrOpts.maxRetries + 1
          /\ wrThrown = wrErrors[Len(wrErrors)]
          /\ wrThrown.attempt = wrOpts.maxRetries
    /\ wrPc = "returned" => wrCalls = Len(wrErrors) + 1
    /\ \A k \in 1..Len(wrSleeps) : wrSleeps[k] <= wrOpts.maxDelayMs

\* A call with two retries failed three times with retryable errors and
\* slept at the cap in between.
C17_Witness ==
    /\ wrPc = "threw"
    /\ wrOpts.maxRetries = 2
    /\ wrCalls = 3
    /\ \A k \in 1..Len(wrErrors) : isRetryableError(wrErrors[k])
    /\ Len(wrSleeps) = 2
    /\ wrSleeps[2] = wrOpts.maxDelayMs

\* ========================================================================
\* Quota-limited adapters: NewsApiService and EventRegistryService
\* ========================================================================
Adapters == {"NewsAPI", "EventRegistry"}

\* config.apis.newsApi.dailyLimit
dailyLimit == 100

\* The free tier's tokens per month in checkMonthlyLimit.
monthlyLimit == 2000

QuotaLimit(a) == IF a = "NewsAPI" THEN dailyLimit ELSE monthlyLimit

\* The fetch operations of each adapter.
FetchOps(a) ==
    IF a = "NewsAPI" THEN {"fetch", "fetchByCategory", "fetchByQuery"}
                     ELSE {"fetch", "fetchByCategory", "fetchByLocation"}

\* The operations that read the cache before they count a request.
ReadsCacheFirst(a, op) ==
    \/ op = "fetch"
    \/ a = "NewsAPI" /\ op = "fetchByCategory"

\* The callers whose calls can overlap.
Fetchers == {"f1", "f2"}

\* Bound: the number of days (NewsAPI) or months (EventRegistry) that pass.
MaxPeriods == 1

\* Bound: the number of fetch* calls made.
MaxFetchCalls == 4

\* checkDailyLimit / checkMonthlyLimit: reset the counter when the period
\* has changed, then compare it with the limit.
checkLimit_NoLimit(a, count, reset, today) ==
    [ok |-> TRUE,
     count |-> IF today # reset THEN 0 ELSE count,
     reset |-> today]

checkLimit_NeverResets(a, count, reset, today) ==
    [ok |-> count < QuotaLimit(a), count |-> count, reset |-> today]

checkLimit(a, count, reset, today) ==
    LET current == IF today # reset THEN 0 ELSE count
    IN [ok |-> current < QuotaLimit(a), count |-> current, reset |-> today]

\* isAvailable(): false without a key, else the limit check.
adapterIsAvailable(a, key, count, reset, today) ==
    IF key = ""
    THEN [ok |-> FALSE, count |-> count, reset |-> reset]
    ELSE checkLimit(a, count, reset, today)

\* The credential is missing.
KeyMissing == qaKey = ""

\* The counter of the current period has reached the limit.
QuotaExhausted == qaNow = qaReset /\ qaCount >= QuotaLimit(qaAdapter)

\* The counters the adapter can have reached: none of the quota used, one
\* request left, or all of it used.
StartCounts(a) == {0, QuotaLimit(a) - 1, QuotaLimit(a)}

IdleCall ==
    [pc |-> "idle", op |-> "fetch", missing |-> FALSE, exhausted |-> FALSE,
     reset |-> FALSE, incremented |-> FALSE, requested |-> FALSE,
     result |-> "<none>"]

NoProbe ==
    [made |-> FALSE, missing |-> FALSE, exhausted |-> FALSE, reset |-> FALSE,
     ok |-> FALSE]

QAParked ==
    /\ qaAdapter = "<none>"
    /\ qaKey = ""
    /\ qaCount = 0
    /\ qaReset = 0
    /\ qaNow = 0
    /\ qaCall = [f \in Fetchers |-> IdleCall]
    /\ qaProbe = NoProbe
    /\ qaStarted = 0

\* One of the adapters some time after construction: the key is configured
\* or not, and the counter is where earlier requests of the period left it
\* (without a key no request was ever counted).
QAInit ==
    /\ qaAdapter \in Adapters
    /\ qaKey \in {"", "key"}
    /\ qaCount \in IF qaKey = "" THEN {0} ELSE StartCounts(qaAdapter)
    /\ qaReset = 0
    /\ qaNow = 0
    /\ qaCall = [f \in Fetchers |-> IdleCall]
    /\ qaProbe = NoProbe
    /\ qaStarted = 0

\* The day (NewsAPI) or the month (EventRegistry) changes.
PeriodTurns ==
    /\ qaNow < MaxPeriods
    /\ qaNow' = qaNow + 1
    /\ UNCHANGED <<qaAdapter, qaKey, qaCount, qaReset, qaCall, qaProbe,
                   qaStarted>>

\* isAvailable() is called on its own, as fetchAllSources does.
IsAvailableCall ==
    LET r == adapterIsAvailable(qaAdapter, qaKey, qaCount, qaReset, qaNow)
    IN /\ qaCount' = r.count
       /\ qaReset' = r.reset
       /\ qaProbe' = [made |-> TRUE, missing |-> KeyMissing,
                      exhausted |-> QuotaExhausted,
                      reset |-> r.count # qaCount, ok |-> r.ok]
       /\ UNCHANGED <<qaAdapter, qaKey, qaNow, qaCall, qaStarted>>

\* A fetch* operation is called: it runs isAvailable() and returns [] when
\* that is false; otherwise it goes on after the await.
FetchCall(f, op) ==
    LET r == adapterIsAvailable(qaAdapter, qaKey, qaCount, qaReset, qaNow)
    IN /\ qaCall[f].pc \in {"idle", "done"}
       /\ qaStarted < MaxFetchCalls
       /\ qaStarted' = qaStarted + 1
       /\ qaCount' = r.count
       /\ qaReset' = r.reset
       /\ qaCall' = [qaCall EXCEPT ![f] =
             [pc |-> IF ~r.ok THEN "done"
                     ELSE IF ReadsCacheFirst(qaAdapter, op) THEN "cache"
                     ELSE "request",
              op |-> op, missing |-> KeyMissing, exhausted |-> QuotaExhausted,
              reset |-> r.count # qaCount, incremented |-> FALSE,
              requested |-> FALSE,
              result |-> IF ~r.ok THEN "[]" ELSE "<none>"]]
       /\ UNCHANGED <<qaAdapter, qaKey, qaNow, qaProbe>>

\* await cache.get(cacheKey): a hit is returned, a miss goes on to the
\* request.
CacheLookup(f) ==
    /\ qaCall[f].pc = "cache"
    /\ \E hit \in BOOLEAN :
          qaCall' = [qaCall EXCEPT ![f] =
              IF hit THEN [@ EXCEPT !.pc = "done", !.result = "cached"]
                     ELSE [@ EXCEPT !.pc = "request"]]
    /\ UNCHANGED <<qaAdapter, qaKey, qaCount, qaReset, qaNow, qaProbe,
                   qaStarted>>

\* The counter is incremented and the request is sent.
IssueRequest(f) ==
    /\ qaCall[f].pc = "request"
    /\ qaCount' = qaCount + 1
    /\ qaCall' = [qaCall EXCEPT ![f] =
          [@ EXCEPT !.pc = "upstream", !.incremented = TRUE,
                    !.requested = TRUE]]
    /\ UNCHANGED <<qaAdapter, qaKey, qaReset, qaNow, qaProbe, qaStarted>>

\* The request settles: the mapped items, or [] on an error status or a
\* rejection.
UpstreamSettles(f) ==
    /\ qaCall[f].pc = "upstream"
    /\ \E res \in {"items", "[]"} :
          qaCall' = [qaCall EXCEPT ![f] =
              [@ EXCEPT !.pc = "done", !.result = res]]
    /\ UNCHANGED <<qaAdapter, qaKey, qaCount, qaReset, qaNow, qaProbe,
                   qaStarted>>

QAStep ==
    \/ PeriodTurns
    \/ IsAvailableCall
    \/ \E f \in Fetchers : \E op \in FetchOps(qaAdapter) : FetchCall(f, op)
    \/ \E f \in Fetchers : CacheLookup(f)
    \/ \E f \in Fetchers : IssueRequest(f)
    \/ \E f \in Fetchers : UpstreamSettles(f)

\* C18: a call made while the adapter's key is missing or its quota of the
\* current period is used up: isAvailable() answers false, and a fetch*
\* operation returns [] without sending a request and without touching the
\* counter.
C18_UnavailableAdapterDoesNothing ==
    /\ (qaProbe.missing \/ qaProbe.exhausted) =>
          ~qaProbe.ok /\ ~qaProbe.reset
    /\ \A f \in Fetchers :
          (qaCall[f].missing \/ qaCall[f].exhausted) =>
              /\ qaCall[f].pc = "done"
              /\ qaCall[f].result = "[]"
              /\ ~qaCall[f].requested
              /\ ~qaCall[f].incremented
              /\ ~qaCall[f].reset

\* One caller was turned away by a used-up quota while the request that
\* used it up was still under way, and isAvailable() has answered false
\* for the used-up quota.
C18_Witness ==
    /\ qaCall["f1"].exhausted /\ ~qaCall["f1"].missing
    /\ qaCall["f1"].op = "fetchByCategory"
    /\ qaCall["f1"].result = "[]"
    /\ qaCall["f2"].pc = "upstream"
    /\ qaProbe.exhausted /\ ~qaProbe.missing /\ ~qaProbe.ok

\* ========================================================================
\* deduplicate: the groups as a partition of the input
\* ========================================================================
\* The groups that hold input position i.
GroupsHolding(i) == {n \in 1..Len(ddGroups) : i \in SeqToSet(ddGroups[n])}

\* C19: deduplicate places every input item in exactly one group (no group
\* is empty or lists a position twice, every position of the input is in
\* one group and in no other), and every group yields one merged event and
\* one event, built from a member of that group.
C19_GroupsPartitionInput ==
    ddPc = "done" =>
        /\ \A i \in 1..Len(ddItems) : Cardinality(GroupsHolding(i)) = 1
        /\ \A n \in 1..Len(ddGroups) :
              /\ Len(ddGroups[n]) >= 1
              /\ SeqToSet(ddGroups[n]) \subseteq 1..Len(ddItems)
              /\ Cardinality(SeqToSet(ddGroups[n])) = Len(ddGroups[n])
        /\ Len(ddMerged) = Len(ddGroups)
        /\ Len(convertToNewsEvents(ddMerged, 1)) = Len(ddGroups)
        /\ \A n \in 1..Len(ddMerged) :
              \E k \in 1..Len(ddGroups[n]) :
                 /\ ddMerged[n].canonicalItem.url = ddItems[ddGroups[n][k]].url
                 /\ ddMerged[n].canonicalItem.title = ddItems[ddGroups[n][k]].title

\* A run over three items in which the third is similar to the first and
\* to the second, the first two are not similar to each other, and the
\* third went to the first one's group only.
C19_Witness ==
    /\ ddPc = "done"
    /\ Len(ddItems) = 3
    /\ ~areSimilar(ddItems[1], ddItems[2])
    /\ areSimilar(ddItems[1], ddItems[3])
    /\ areSimilar(ddItems[2], ddItems[3])
    /\ ddGroups = << <<1, 3>>, <<2>> >>

\* ========================================================================
\* classify: the specification
\* ========================================================================
\* Bound: the number of GDELT themes of an item.
MaxThemes == 1

\* Bound: the number of keyword matches of one category in the text.
MaxKeywordHits == 2

\* The theme keys and the categories whose keywords occur in the texts.
ClassifyThemes == {"TERROR", "ELECTION", "CLIMATE"}
ClassifyKeywordCategories == {"conflict", "economics", "technology", "environment"}
ClassifyTones == {Undef, -35, -80}
ClassifySources == {"GDELT", "TechCrunch", "BusinessWire"}

ClassifiedItem(themes, cw, tone, source) ==
    [Item(TitleQuake, 28, Undef, Undef, "", source, "u1", "", 0, tone, <<>>)
        EXCEPT !.themes = themes, !.cw = cw]

CLParked ==
    /\ clPc = "parked"
    /\ clItem = ClassifiedItem(<<>>, << >>, Undef, "GDELT")
    /\ clResult = "<none>"
    /\ clAgain = "<none>"

CLInit ==
    /\ clPc = "input"
    /\ \E themes \in BatchesUpTo(ClassifyThemes, MaxThemes),
          cw \in [ClassifyKeywordCategories -> 0..MaxKeywordHits],
          tone \in ClassifyTones, source \in ClassifySources :
          clItem = ClassifiedItem(themes, cw, tone, source)
    /\ clResult = "<none>"
    /\ clAgain = "<none>"

\* classifierService.classify(item)
Classify ==
    /\ clPc = "input"
    /\ clPc' = "once"
    /\ clResult' = classify(clItem)
    /\ UNCHANGED <<clItem, clAgain>>

\* classifierService.classify(item), called again on the same item.
ClassifyAgain ==
    /\ clPc = "once"
    /\ clPc' = "done"
    /\ clAgain' = classify(clItem)
    /\ UNCHANGED <<clItem, clResult>>

CLStep == Classify \/ ClassifyAgain

\* The position of category c in declaration order.
PositionOf(c) == CHOOSE k \in 1..Len(CategoryOrder) : CategoryOrder[k] = c

\* The categories that hold the highest score.
TopCategories(item) ==
    {c \in Categories : CategoryScore10(item, c) = MaxScore10(item)}

\* C20: classify returns the same category each time it is called on an
\* item; that category holds the highest score; when the highest score is
\* not zero, no category declared before it holds that score.
C20_HighestScoreFirstDeclaredWins ==
    clPc = "done" =>
        /\ clAgain = clResult
        /\ clResult \in TopCategories(clItem)
        /\ MaxScore10(clItem) > 0 =>
              \A c \in TopCategories(clItem) : PositionOf(clResult) <= PositionOf(c)

\* Two categories, neither the first of the table nor the default, share
\* a highest score above zero, and the one declared first is returned.
C20_Witness ==
    /\ clPc = "done"
    /\ MaxScore10(clItem) > 0
    /\ TopCategories(clItem) = {"economics", "environment"}
    /\ clResult = "economics"

\* ========================================================================
\* aggregateNews, steps 3 to 5: geocode, convert, filter
\* ========================================================================
\* Bound: the number of merged events of a pass.
MaxGroups == 21

\* The kinds of merged event of this model, by their canonical item:
\* with coordinates; without coordinates and with a text that names Paris;
\* with a text that names Tokyo and Paris; with a location name that is
\* Paris and no place in the text; with a location name that is no place;
\* with coordinates on the equator.
GroupKinds == {"located", "paris", "tokyo paris", "named", "nowhere", "equator"}

KindItem(kind) ==
    CASE kind = "located" ->
           Item(TitleQuake, 28, 356, Meridian, "", "GDELT", "g1", "", 0, -35, <<>>)
      [] kind = "paris" ->
           Item(TitleVote, 30, Undef, Undef, "", "NewsAPI", "n1", "img", 60, Undef,
                <<"Paris">>)
      [] kind = "tokyo paris" ->
           Item(TitleVote, 30, Undef, Undef, "", "NewsAPI", "n2", "", 0, Undef,
                <<"Tokyo", "Paris">>)
      [] kind = "named" ->
           Item(TitleVote, 30, Undef, Undef, "Paris", "RSS", "r2", "", 0, Undef, <<>>)
      [] kind = "nowhere" ->
           Item(TitleQuakeBang, 30, Undef, Undef, "Atlantis", "RSS", "r1", "", 10,
                Undef, <<>>)
      [] kind = "equator" ->
           Item(TitleQuake, 28, 0, 23, "", "GDELT", "g2", "", 0, Undef, <<>>)

\* The merged event deduplicate returns for a group of one item.
KindGroup(kind) == mergeGroup(<<KindItem(kind)>>, AggNow)

\* The lists of merged events tried: n events of one kind, but for the one
\* at position p, of another kind.
GroupList(n, p, probe, filler) ==
    [k \in 1..n |-> IF k = p THEN KindGroup(probe) ELSE KindGroup(filler)]

\* The number of geocodingService.geocode calls the loop body of
\* geocodeItems makes for one merged event: one per place name of the text,
\* and one for the location name when no place name was resolved.
GeocodeCallsOne(me, geo) ==
    LET item == me.canonicalItem
    IN Len(item.mentions)
       + (IF Len(extractAndGeocodeLocations(item.mentions, geo)) = 0
             /\ item.location.name # ""
          THEN 1 ELSE 0)

\* The merged events geocodeItems works on: toGeocode.
ToGeocode(merged) ==
    LET needing == {k \in 1..Len(merged) : NeedsGeocoding(merged[k])}
    IN {k \in needing : Cardinality({m \in needing : m <= k}) <= maxGeocodeItems}

RECURSIVE SumOver(_, _, _)
SumOver(S, merged, geo) ==
    IF S = {} THEN 0
    ELSE LET k == CHOOSE x \in S : TRUE
         IN GeocodeCallsOne(merged[k], geo) + SumOver(S \ {k}, merged, geo)

GeocodeCalls(merged, geo) == SumOver(ToGeocode(merged), merged, geo)

GSParked ==
    /\ gsPc = "parked"
    /\ gsMerged = <<>>
    /\ gsGeo = "unused"
    /\ gsAfter = <<>>
    /\ gsCalls = 0
    /\ gsValid = <<>>

\* deduplicate has returned mergedEvents.
GSInit ==
    /\ gsPc = "merged"
    /\ \E n \in 0..MaxGroups, p \in 1..MaxGroups, probe \in GroupKinds,
          filler \in GroupKinds :
          gsMerged = GroupList(n, p, probe, filler)
    /\ gsGeo \in {"up", "down"}
    /\ gsAfter = <<>>
    /\ gsCalls = 0
    /\ gsValid = <<>>

\* Step 3: geocodeItems(itemsNeedingGeocoding), which writes into the
\* merged events it is given.
GeocodeStage ==
    /\ gsPc = "merged"
    /\ gsPc' = "geocoded"
    /\ gsAfter' = geocodeItems(gsMerged, gsGeo)
    /\ gsCalls' = GeocodeCalls(gsMerged, gsGeo)
    /\ UNCHANGED <<gsMerged, gsGeo, gsValid>>

\* Steps 4 and 5: convertToNewsEvents and the filter on the coordinates.
ConvertAndFilter ==
    /\ gsPc = "geocoded"
    /\ gsPc' = "filtered"
    /\ gsValid' = validEvents(convertToNewsEvents(gsAfter, 1))
    /\ UNCHANGED <<gsMerged, gsGeo, gsAfter, gsCalls>>

GSStep == GeocodeStage \/ ConvertAndFilter

\* The event of the merged event at position k was passed to persistence.
PassedOn(k) == \E e \in 1..Len(gsValid) : gsValid[e].id = k

\* The resolver returns coordinates for the merged event's text.
TextResolves(me) ==
    Len(extractAndGeocodeLocations(me.canonicalItem.mentions, gsGeo)) > 0

\* Neither the text nor the location name of the merged event resolves.
NothingResolves(me) ==
    /\ ~TextResolves(me)
    /\ geocode(me.canonicalItem.location.name, gsGeo) = NoResult

NoCoordinates(me) ==
    me.canonicalItem.location.lat = Undef /\ me.canonicalItem.location.lng = Undef

\* C21 (as claimed): a merged event without coordinates is left out when
\* nothing resolves, and is passed to persistence when the resolver returns
\* coordinates for its text, wherever it stands among the merged events.
C21_ResolvedIsPersistedAnywhere ==
    gsPc = "filtered" =>
        \A k \in 1..Len(gsMerged) :
            NoCoordinates(gsMerged[k]) =>
                /\ NothingResolves(gsMerged[k]) => ~PassedOn(k)
                /\ TextResolves(gsMerged[k]) => PassedOn(k)

\* C21 (amended): a merged event without coordinates is left out when
\* nothing resolves, and is passed to persistence when the resolver returns
\* coordinates for its text and it is among the first maxGeocodeItems
\* merged events that need geocoding.
C21_ResolvedIsPersistedWithinCap ==
    gsPc = "filtered" =>
        \A k \in 1..Len(gsMerged) :
            NoCoordinates(gsMerged[k]) =>
                /\ NothingResolves(gsMerged[k]) => ~PassedOn(k)
                /\ (TextResolves(gsMerged[k]) /\ k \in ToGeocode(gsMerged))
                      => PassedOn(k)

\* A pass of five merged events without coordinates: the third names Paris
\* and is passed on with the coordinates of Paris, the others resolve to
\* nothing and are left out.
C21_Witness ==
    /\ gsPc = "filtered"
    /\ Len(gsMerged) = 5
    /\ \A k \in 1..5 : NoCoordinates(gsMerged[k])
    /\ TextResolves(gsMerged[3])
    /\ \A k \in {1, 2, 4, 5} : NothingResolves(gsMerged[k])
    /\ Len(gsValid) = 1
    /\ gsValid[1].id = 3
    /\ gsValid[1].lat = Gazetteer["Paris"].lat
    /\ gsValid[1].lng = Gazetteer["Paris"].lng

\* C24: an event is left out of persistence only when lat = 0 and lng = 0
\* together.
C24_OnlyUnresolvedDiscarded ==
    gsPc = "filtered" =>
        \A k \in 1..Len(gsAfter) :
            LET event == convertToNewsEvents(gsAfter, 1)[k]
            IN ~PassedOn(k) => (event.lat = 0 /\ event.lng = 0)

\* C26: the number of geocode calls of a pass is at most maxGeocodeItems.
C26_GeocodeCallsWithinCap == gsCalls <= maxGeocodeItems

\* C29: the merged events are, after geocoding and after conversion, what
\* deduplicate returned.
C29_MergedEventsUnchanged ==
    gsPc \in {"geocoded", "filtered"} => gsAfter = gsMerged

\* ========================================================================
\* The Tokyo earthquake scenario
\* ========================================================================
\* "Magnitude 7.1 earthquake hits Tokyo"
TokyoTitle1 ==
    <<"M", "a", "g", "n", "i", "t", "u", "d", "e", " ", "7", ".", "1", " ",
      "e", "a", "r", "t", "h", "q", "u", "a", "k", "e", " ", "h", "i", "t",
      "s", " ", "T", "o", "k", "y", "o">>

\* "7.1 quake strikes near Tokyo"
TokyoTitle2 ==
    <<"7", ".", "1", " ", "q", "u", "a", "k", "e", " ", "s", "t", "r", "i",
      "k", "e", "s", " ", "n", "e", "a", "r", " ", "T", "o", "k", "y", "o">>

\* The words of the two texts (title, no summary), lower-cased, as the
\* \b...\b patterns of the classifier delimit them.
TokyoWords1 == <<"magnitude", "7", "1", "earthquake", "hits", "tokyo">>
TokyoWords2 == <<"7", "1", "quake", "strikes", "near", "tokyo">>

\* CATEGORY_DEFINITIONS[...].keywords: of each list, the one-word keywords
\* closest to the words of the two texts.
CategoryKeywords ==
    [c \in Categories |->
        CASE c = "conflict" -> {"strike", "attack", "explosion", "killed", "casualties"}
          [] c = "politics" -> {"vote", "government", "law"}
          [] c = "disaster" -> {"earthquake", "tsunami", "disaster", "emergency",
                                "damage", "collapse", "casualties", "explosion"}
          [] c = "economics" -> {"market", "trade"}
          [] c = "health" -> {"health", "who"}
          [] c = "technology" -> {"tech", "ai", "data"}
          [] c = "environment" -> {"climate", "nature", "ice"}]

\* text.match(/\bkeyword\b/gi) summed over the keywords of category c: the
\* number of words of the text that are keywords of c.
WordHits(words, c) ==
    Cardinality({k \in 1..Len(words) : words[k] \in CategoryKeywords[c]})

\* The two items: (35.6, 139.7) at t0 and (35.8, 139.9) at t0 + 2h.
TokyoItem1(t0, tone, source) ==
    [Item(TokyoTitle1, t0, 356, 1397, "", source, "tokyo-1", "", 0, tone, <<>>)
        EXCEPT !.cw = [c \in Categories |-> WordHits(TokyoWords1, c)]]

TokyoItem2(t0, tone, source) ==
    [Item(TokyoTitle2, t0 + 2, 358, 1399, "", source, "tokyo-2", "", 0, tone, <<>>)
        EXCEPT !.cw = [c \in Categories |-> WordHits(TokyoWords2, c)]]

\* t0 in hours, the clock being DedupNow; a neutral tone is absent or 0.
TokyoStarts == {1, 10, 20, 25, 27, 29}
NeutralTones == {Undef, 0}
TokyoSourcePairs == {<<"GDELT", "NewsAPI">>, <<"RSS", "GDELT">>}

\* allItems: the two items, in either order.
TokyoInputs ==
    UNION { { <<TokyoItem1(t0, tone1, src[1]), TokyoItem2(t0, tone2, src[2])>>,
              <<TokyoItem2(t0, tone2, src[2]), TokyoItem1(t0, tone1, src[1])>> } :
            t0 \in TokyoStarts, tone1 \in NeutralTones, tone2 \in NeutralTones,
            src \in TokyoSourcePairs }

TKParked ==
    /\ tkPc = "parked"
    /\ tkItems = <<>>
    /\ tkMerged = <<>>
    /\ tkEvents = <<>>

TKInit ==
    /\ tkPc = "input"
    /\ tkItems \in TokyoInputs
    /\ tkMerged = <<>>
    /\ tkEvents = <<>>

\* Step 2 of aggregateNews: deduplicate(allItems).
TokyoDeduplicate ==
    /\ tkPc = "input"
    /\ tkPc' = "merged"
    /\ tkMerged' = deduplicate(tkItems, DedupNow)
    /\ UNCHANGED <<tkItems, tkEvents>>

\* Step 4 of aggregateNews: convertToNewsEvents(mergedEvents, ...).
TokyoConvert ==
    /\ tkPc = "merged"
    /\ tkPc' = "converted"
    /\ tkEvents' = convertToNewsEvents(tkMerged, 1)
    /\ UNCHANGED <<tkItems, tkMerged>>

TKStep == TokyoDeduplicate \/ TokyoConvert

\* C22: deduplicate merges the two items into one merged event with
\* sourceCount = 2.
C22_TokyoItemsMerge ==
    tkPc \in {"merged", "converted"} =>
        /\ Len(tkMerged) = 1
        /\ tkMerged[1].sourceCount = 2

\* C23: the event produced from the two items is classified as disaster,
\* whichever of the two items is the canonical one: every event of the
\* pass, and the event of the two items merged, has category disaster.
C23_TokyoIsDisaster ==
    tkPc = "converted" =>
        /\ \A k \in 1..Len(tkEvents) : tkEvents[k].category = "disaster"
        /\ classify(mergeGroup(tkItems, DedupNow).canonicalItem) = "disaster"

\* ========================================================================
\* mergeGroup: the choice of the canonical item
\* ========================================================================
\* Bound: the number of members of a group.
MaxMembers == 2

\* The timestamps of the members (hours; the clock is DedupNow): now, two
\* hours ago, twenty-one hours ago.
MemberTimestamps == {31, 29, 10}

\* The members tried: with or without coordinates, image, long summary and
\* tone, at each timestamp.
MemberItem(coords, image, long, tone, ts) ==
    Item(TitleQuake, ts, IF coords THEN 356 ELSE Undef,
         IF coords THEN Meridian ELSE Undef, "", "RSS", "m",
         IF image THEN "img" ELSE "", IF long THEN 60 ELSE 0,
         IF tone THEN -35 ELSE Undef, <<>>)

MemberUniverse ==
    { MemberItem(coords, image, long, tone, ts) :
        coords \in BOOLEAN, image \in BOOLEAN, long \in BOOLEAN,
        tone \in BOOLEAN, ts \in MemberTimestamps }

MGParked ==
    /\ mgPc = "parked"
    /\ mgGroup = <<>>
    /\ mgMerged = <<>>

MGInit ==
    /\ mgPc = "group"
    /\ \E n \in 1..MaxMembers : mgGroup \in [1..n -> MemberUniverse]
    /\ mgMerged = <<>>

\* mergeGroup(currentGroup)
MergeGroupCall ==
    /\ mgPc = "group"
    /\ mgPc' = "merged"
    /\ mgMerged' = <<mergeGroup(mgGroup, DedupNow)>>
    /\ UNCHANGED mgGroup

MGStep == MergeGroupCall

\* The attributes of the priority, in its order.
HasLat(item) == item.location.lat # Undef
HasImage(item) == item.imageUrl # ""
HasLongSummary(item) == item.summaryLen > 50
HasTone(item) == item.gdeltTone # Undef

\* a ranks above b by has-coordinates > has-image > long-summary > has-tone.
RanksAbove(a, b) ==
    \/ HasLat(a) /\ ~HasLat(b)
    \/ HasLat(a) = HasLat(b) /\ HasImage(a) /\ ~HasImage(b)
    \/ HasLat(a) = HasLat(b) /\ HasImage(a) = HasImage(b)
         /\ HasLongSummary(a) /\ ~HasLongSummary(b)
    \/ HasLat(a) = HasLat(b) /\ HasImage(a) = HasImage(b)
         /\ HasLongSummary(a) = HasLongSummary(b) /\ HasTone(a) /\ ~HasTone(b)

\* The member chosen as canonical: sorted[0].
ChosenMember == mgGroup[CanonicalIndex(mgGroup, DedupNow)]

\* C25: no member ranks above the canonical one by the priority; in
\* particular the canonical one has coordinates when some member has.
C25_CanonicalIsHighestRanked ==
    mgPc = "merged" =>
        /\ mgMerged[1].canonicalItem.timestamp = ChosenMember.timestamp
        /\ \A k \in 1..Len(mgGroup) : ~RanksAbove(mgGroup[k], ChosenMember)
        /\ (\E k \in 1..Len(mgGroup) : HasLat(mgGroup[k])) => HasLat(ChosenMember)

\* ========================================================================
\* WorkerManager: the aggregation passes in flight
\* ========================================================================
\* Bound: the passes in flight that a tick or a manual trigger began.
MaxPassesInFlight == 3

WMParked ==
    /\ wmPc = "parked"
    /\ wmIsRunning = FALSE
    /\ wmTask = FALSE
    /\ wmPasses = [tick |-> 0, manual |-> 0]

WMInit ==
    /\ wmPc = "idle"
    /\ wmIsRunning = FALSE
    /\ wmTask = FALSE
    /\ wmPasses = [tick |-> 0, manual |-> 0]

\* start(): returns at once when isRunning, else sets it and awaits the
\* initial runAggregation().
StartCall ==
    /\ wmPc \in {"idle", "started"}
    /\ IF wmIsRunning
       THEN UNCHANGED <<wmPc, wmIsRunning>>
       ELSE wmPc' = "initial" /\ wmIsRunning' = TRUE
    /\ UNCHANGED <<wmTask, wmPasses>>

\* The initial runAggregation() settles: start() goes on to warmupCache().
InitialPassEnds ==
    /\ wmPc = "initial"
    /\ wmPc' = "warmup"
    /\ UNCHANGED <<wmIsRunning, wmTask, wmPasses>>

\* warmupCache() settles: start() schedules the periodic aggregation.
WarmupEnds ==
    /\ wmPc = "warmup"
    /\ wmPc' = "started"
    /\ wmTask' = TRUE
    /\ UNCHANGED <<wmIsRunning, wmPasses>>

\* The cron callback: async () => { await this.runAggregation(); }
SchedulerTick ==
    /\ wmTask
    /\ wmPasses.tick < MaxPassesInFlight
    /\ wmPasses' = [wmPasses EXCEPT !.tick = @ + 1]
    /\ UNCHANGED <<wmPc, wmIsRunning, wmTask>>

\* triggerAggregation(): await this.runAggregation()
TriggerAggregation ==
    /\ wmPasses.manual < MaxPassesInFlight
    /\ wmPasses' = [wmPasses EXCEPT !.manual = @ + 1]
    /\ UNCHANGED <<wmPc, wmIsRunning, wmTask>>

\* aggregateNews() of a pass that a tick or a trigger began settles.
PassEnds ==
    /\ \E origin \in {"tick", "manual"} :
          /\ wmPasses[origin] > 0
          /\ wmPasses' = [wmPasses EXCEPT ![origin] = @ - 1]
    /\ UNCHANGED <<wmPc, wmIsRunning, wmTask>>

\* stop(): the tasks are stopped and isRunning is cleared.
StopCall ==
    /\ wmTask' = FALSE
    /\ wmIsRunning' = FALSE
    /\ UNCHANGED <<wmPc, wmPasses>>

WMStep ==
    \/ StartCall
    \/ InitialPassEnds
    \/ WarmupEnds
    \/ SchedulerTick
    \/ TriggerAggregation
    \/ PassEnds
    \/ StopCall

\* The aggregateNews() calls that have not settled.
PassesInFlight ==
    wmPasses.tick + wmPasses.manual + (IF wmPc = "initial" THEN 1 ELSE 0)

\* C27: at most one aggregation pass is in flight at any time.
C27_AtMostOnePassInFlight == PassesInFlight <= 1

\* ========================================================================
\* The upstream requests of GdeltService.fetch and GeocodingService.geocode
\* ========================================================================
\* Bound: the calls of fetch() or geocode() followed, one after the other.
MaxUpstreamCalls == 3

\* The options each service passes to withRetry: GDELT none, the geocoder
\* { maxRetries: 2 }.
UpstreamOpts(service) ==
    IF service = "GDELT"
    THEN [maxRetries |-> 3, maxDelayMs |-> 30000]
    ELSE [maxRetries |-> 2, maxDelayMs |-> 30000]

UPParked ==
    /\ upPc = "parked"
    /\ upService = "none"
    /\ upAttempt = 0
    /\ upCallsLeft = 0
    /\ upLog = <<>>

UPInit ==
    /\ upPc = "idle"
    /\ upService \in {"GDELT", "Nominatim"}
    /\ upAttempt = 0
    /\ upCallsLeft = MaxUpstreamCalls
    /\ upLog = <<>>

\* fetch() or geocode() (past its caches) is called: it awaits
\* this.rateLimiter.acquire().
UpstreamCall ==
    /\ upPc = "idle"
    /\ upCallsLeft > 0
    /\ upCallsLeft' = upCallsLeft - 1
    /\ upPc' = "acquiring"
    /\ UNCHANGED <<upService, upAttempt, upLog>>

\* acquire() admits the caller; withRetry starts and calls the operation,
\* which issues the request.
CallerAdmitted ==
    /\ upPc = "acquiring"
    /\ upLog' = upLog \o <<"acquire", "request">>
    /\ upAttempt' = 0
    /\ upPc' = "calling"
    /\ UNCHANGED <<upService, upCallsLeft>>

\* The request is answered: withRetry returns and the call ends.
RequestSucceeds ==
    /\ upPc = "calling"
    /\ upPc' = "idle"
    /\ UNCHANGED <<upService, upAttempt, upCallsLeft, upLog>>

\* The request fails: withRetry rethrows, which the caller catches, or
\* sleeps before the next attempt.
RequestFails ==
    /\ upPc = "calling"
    /\ \E thrown \in ThrownValues :
          upPc' = IF GivesUp(upAttempt, thrown, UpstreamOpts(upService))
                  THEN "idle" ELSE "sleeping"
    /\ UNCHANGED <<upService, upAttempt, upCallsLeft, upLog>>

\* The backoff is over: the loop calls the operation again, which issues
\* the next request.
RetryIssued ==
    /\ upPc = "sleeping"
    /\ upAttempt' = upAttempt + 1
    /\ upLog' = Append(upLog, "request")
    /\ upPc' = "calling"
    /\ UNCHANGED <<upService, upCallsLeft>>

UPStep ==
    \/ UpstreamCall
    \/ CallerAdmitted
    \/ RequestSucceeds
    \/ RequestFails
    \/ RetryIssued

\* The entries of a kind among the first n of the log.
CountIn(log, n, kind) == Cardinality({k \in 1..n : log[k] = kind})

\* C28: every request is preceded by an admission of its own: up to each
\* request, the log holds at least as many admissions as requests.
C28_EveryRequestAdmitted ==
    \A n \in 1..Len(upLog) :
        upLog[n] = "request" =>
            CountIn(upLog, n, "request") <= CountIn(upLog, n, "acquire")

\* ========================================================================
\* GeocoderService.extractLocations
\* ========================================================================
\* Bounds: the entries of MARKET_PATTERNS, the locations of one of them,
\* the member locations of an organization, the locations that
\* extractWithNLP returns.
MaxPatterns == 2
MaxPatternLocs == 2
MaxOrgLocs == 4
MaxNlpLocs == 2

\* The locations of the mapping tables, confidence in hundredths.
TablePlaces ==
    { [name |-> "United States", lat |-> 38, lng |-> -97, confidence |-> 90],
      [name |-> "France", lat |-> 46, lng |-> 2, confidence |-> 85] }

SeqsUpTo(S, lo, hi) == UNION {[1..n -> S] : n \in lo..hi}

\* A question is what it makes of the tables: per entry of MARKET_PATTERNS
\* whether pattern.test(question) holds, whether the organization is
\* mentioned, and what extractWithNLP returns.
Questions ==
    [ patterns : SeqsUpTo([matches : BOOLEAN,
                           locs : SeqsUpTo(TablePlaces, 1, MaxPatternLocs)],
                          0, MaxPatterns),
      org : [mentioned : BOOLEAN, locs : SeqsUpTo(TablePlaces, 0, MaxOrgLocs)],
      nlp : SeqsUpTo(TablePlaces, 0, MaxNlpLocs) ]

ExtractedLocation(loc, confidence, type) ==
    [name |-> loc.name, lat |-> loc.lat, lng |-> loc.lng,
     confidence |-> confidence, type |-> type]

RECURSIVE MapLocs(_, _, _)
MapLocs(locs, k, type) ==
    IF k > Len(locs) THEN <<>>
    ELSE <<ExtractedLocation(locs[k], locs[k].confidence, type)>>
         \o MapLocs(locs, k + 1, type)

\* matchPatterns: the locations of every matching pattern, in table order.
RECURSIVE matchPatterns(_, _)
matchPatterns(patterns, k) ==
    IF k > Len(patterns) THEN <<>>
    ELSE (IF patterns[k].matches
          THEN MapLocs(patterns[k].locs, 1, "country") ELSE <<>>)
         \o matchPatterns(patterns, k + 1)

\* matchOrganizations: locs.slice(0, 3) of a mentioned organization, each
\* with confidence 0.75.
OrgSlice == 3

matchOrganizations(org) ==
    IF org.mentioned
    THEN [k \in 1..Min(Len(org.locs), OrgSlice) |->
             ExtractedLocation(org.locs[k], 75, "organization")]
    ELSE <<>>

\* extractWithNLP's locations: resolved place names carry 0.8.
extractWithNLP(nlp) ==
    [k \in 1..Len(nlp) |-> ExtractedLocation(nlp[k], 80, "country")]

\* locations.find(l => l.lat === loc.lat && l.lng === loc.lng)
FindsCoordinates(locations, loc) ==
    \E k \in 1..Len(locations) :
        locations[k].lat = loc.lat /\ locations[k].lng = loc.lng

\* for (const loc of more) if (!locations.find(...)) locations.push(loc)
RECURSIVE PushUnlessFound(_, _, _)
PushUnlessFound(locations, more, k) ==
    IF k > Len(more) THEN locations
    ELSE PushUnlessFound(IF FindsCoordinates(locations, more[k])
                         THEN locations ELSE Append(locations, more[k]),
                         more, k + 1)

RECURSIVE SumConfidence(_, _)
SumConfidence(locations, k) ==
    IF k > Len(locations) THEN 0
    ELSE locations[k].confidence + SumConfidence(locations, k + 1)

\* extractLocations: confidence is the pair of the sum and the count that
\* the mean is taken of, <<0, 1>> when there is no location.
extractLocations(q) ==
    LET patternLocations == matchPatterns(q.patterns, 1)
        withOrgs == PushUnlessFound(patternLocations, matchOrganizations(q.org), 1)
        locations == PushUnlessFound(withOrgs, extractWithNLP(q.nlp), 1)
    IN [locations |-> locations,
        confidence |-> IF Len(locations) > 0
                       THEN <<SumConfidence(locations, 1), Len(locations)>>
                       ELSE <<0, 1>>,
        method |-> IF Len(locations) > 0 /\ Len(patternLocations) > 0
                   THEN "pattern" ELSE "nlp"]

EXParked ==
    /\ exPc = "parked"
    /\ exQuestion = <<>>
    /\ exResult = <<>>

EXInit ==
    /\ exPc = "question"
    /\ exQuestion \in Questions
    /\ exResult = <<>>

ExtractLocationsCall ==
    /\ exPc = "question"
    /\ exResult' = <<extractLocations(exQuestion)>>
    /\ exPc' = "extracted"
    /\ UNCHANGED exQuestion

\* C30: extractLocations never returns two candidates with the same
\* (lat, lng), also when two matching patterns map to the same location.
C30_NoTwoCandidatesShareCoordinates ==
    exPc = "extracted" =>
        LET locations == exResult[1].locations
        IN \A i \in 1..Len(locations), j \in 1..Len(locations) :
               (locations[i].lat = locations[j].lat
                /\ locations[i].lng = locations[j].lng) => i = j

\* ========================================================================
\* deduplicate: every member is similar to the seed
\* ========================================================================
\* The similarity predicate as the specification words it.
WithinWindow(a, b) == Abs(a.timestamp - b.timestamp) <= timeWindowHours

TitlesAlike(a, b) ==
    FuzzRatio(normalizeTitle(a.title), normalizeTitle(b.title)) >= fuzzyThreshold

FullySimilar(a, b) ==
    /\ WithinWindow(a, b)
    /\ (HasCoordinates(a) /\ HasCoordinates(b)) => WithinRadius(a, b)
    /\ TitlesAlike(a, b)

StageSteps ==
    { <<"idle", "probing">>, <<"done", "probing">>, <<"rejected", "probing">>,
      <<"probing", "awaiting">>, <<"awaiting", "fetched">>,
      <<"awaiting", "done">>, <<"awaiting", "rejected">>,
      <<"fetched", "geocoded">>, <<"geocoded", "stored">>,
      <<"geocoded", "rejected">>, <<"stored", "done">> }

\* C32: in every pass the stages run in the order fetch, deduplicate,
\* geocode, classify and score, filter, persist, invalidate; the
\* invalidation is issued only after the pass's upsert has completed, and
\* every pass in which insertEvents returned issues it before it ends.
C32_InvalidationFollowsPersist ==
    [][/\ agPc' # agPc => <<agPc, agPc'>> \in StageSteps
       /\ agOutcome'.invalidated # agOutcome.invalidated =>
             (agOutcome.invalidated = "no" /\ agPc = "stored")
             \/ (agOutcome'.invalidated = "no" /\ agPc' = "probing")
       /\ (agPc' = "done" /\ agOutcome'.persisted) =>
             agOutcome'.invalidated # "no"]_vars

\* A pass has ended that changed the table and then invalidated the caches.
C32_Witness ==
    /\ agPc = "done"
    /\ agOutcome.persisted
    /\ stRows # agPrev.rows
    /\ agOutcome.invalidated = "done"

\* ========================================================================
\* Quota-limited adapters: the reset of the counter
\* ========================================================================
\* A step in which the adapter is consulted: a fetch* operation starting,
\* or isAvailable() on its own, which is the one step that leaves the
\* clock and every call where they are.
AdapterConsulted == qaStarted' # qaStarted \/ (qaNow' = qaNow /\ qaCall' = qaCall)

\* C33: the quota counter is zero after the first consultation that follows
\* a change of the calendar period key (the key differs from the last-reset
\* key), and the counter never goes down while the key is unchanged.
C33_CounterResetOnPeriodChange ==
    [][/\ (AdapterConsulted /\ qaNow # qaReset) => qaCount' = 0
       /\ qaCount' < qaCount =>
             (AdapterConsulted /\ qaNow # qaReset /\ qaCount' = 0
              /\ qaReset' = qaNow)
       /\ qaNow = qaReset => qaCount' >= qaCount]_vars

\* The period has turned, a consultation has reset a used counter, and a
\* later consultation in the same period has left the new count alone.
C33_Witness ==
    /\ qaNow > 0
    /\ qaReset = qaNow
    /\ qaProbe.made /\ qaProbe.reset
    /\ qaCount = 1
    /\ \E f \in Fetchers : qaCall[f].pc = "done" /\ ~qaCall[f].reset
                           /\ ~qaCall[f].requested /\ qaCall[f].result = "cached"

\* C34: under any interleaving of concurrent fetch* calls, the adapter's
\* counter never exceeds its limit within one period.
C34_CounterWithinLimit == qaCount <= QuotaLimit(qaAdapter)

\* ========================================================================
\* RateLimiter: the range of the token count
\* ========================================================================
\* C35: in every reachable state of a RateLimiter, under any interleaving
\* of acquire() calls and any passage of time, the token count is within
\* 0..maxTokens.
C35_TokensInRange == tokens \in 0..maxTokens

\* One caller took a token at time 0 and another at a time at least two
\* refill intervals later, when the refill met the cap: one token of a full
\* bucket is gone.
C35_Witness ==
    /\ now >= 2 * refillRateMs
    /\ lastRefill = now
    /\ tokens = maxTokens - 1
    /\ \E c, d \in Callers :
          /\ c # d
          /\ rlPc[c] = "admitted" /\ admittedAt[c] = 0
          /\ rlPc[d] = "admitted" /\ admittedAt[d] = now
          /\ \A e \in Callers \ {c, d} : rlPc[e] = "idle"

\* C36: once stop() has returned no scheduled task remains active, also
\* when stop() is called while start() is still awaiting: in every reachable
\* state, isRunning = false implies that no task is scheduled.  (The three
\* tasks are scheduled together and stopped together; wmTask stands for
\* each of them.)
C36_StoppedMeansNoTask == ~wmIsRunning => ~wmTask

\* ========================================================================
\* Route handlers running beside a pass
\* ========================================================================
\* The requests followed; a request is for an events key or a heatmap key.
Requests == {"r1", "r2"}
RouteKeys == {"events:all", "heatmap:all"}

NoEntry == -1

IdleRequest == [pc |-> "idle", key |-> "events:all", read |-> NoEntry]

RTParked ==
    /\ rtStore = 0
    /\ rtCache = [k \in RouteKeys |-> NoEntry]
    /\ rtPassPc = "parked"
    /\ rtHandler = [r \in Requests |-> IdleRequest]

\* A pass is about to persist its valid events; the cache holds entries
\* computed from the store as it is now, or none.
RTInit ==
    /\ rtStore = 0
    /\ rtCache \in [RouteKeys -> {NoEntry, 0}]
    /\ rtPassPc = "persist"
    /\ rtHandler = [r \in Requests |-> IdleRequest]

\* Step 6 of aggregateNews: await insertEvents(validEvents).
PassUpsert ==
    /\ rtPassPc = "persist"
    /\ rtStore' = 1
    /\ rtPassPc' = "events"
    /\ UNCHANGED <<rtCache, rtHandler>>

\* invalidateCaches: await cache.deletePattern('events:*'), then
\* await cache.deletePattern('heatmap:*').
PassInvalidate ==
    /\ rtPassPc \in {"events", "heatmap"}
    /\ rtCache' = [k \in RouteKeys |->
                      IF (rtPassPc = "events" /\ k = "events:all")
                         \/ (rtPassPc = "heatmap" /\ k = "heatmap:all")
                      THEN NoEntry ELSE rtCache[k]]
    /\ rtPassPc' = IF rtPassPc = "events" THEN "heatmap" ELSE "done"
    /\ UNCHANGED <<rtStore, rtHandler>>

\* The handler's await cache.get(cacheKey): a hit is sent at once.
RouteCacheGet(r) ==
    /\ rtHandler[r].pc = "idle"
    /\ \E key \in RouteKeys :
          rtHandler' = [rtHandler EXCEPT ![r] =
              [pc |-> IF rtCache[key] # NoEntry THEN "sent" ELSE "query",
               key |-> key, read |-> rtCache[key]]]
    /\ UNCHANGED <<rtStore, rtCache, rtPassPc>>

\* await getEvents(query) or getHeatmapData(...): the store as it is now.
RouteQueryStore(r) ==
    /\ rtHandler[r].pc = "query"
    /\ rtHandler' = [rtHandler EXCEPT ![r] = [@ EXCEPT !.pc = "set", !.read = rtStore]]
    /\ UNCHANGED <<rtStore, rtCache, rtPassPc>>

\* await cache.set(cacheKey, events), then res.json(events).
RouteCacheSet(r) ==
    /\ rtHandler[r].pc = "set"
    /\ rtCache' = [rtCache EXCEPT ![rtHandler[r].key] = rtHandler[r].read]
    /\ rtHandler' = [rtHandler EXCEPT ![r] = [@ EXCEPT !.pc = "sent"]]
    /\ UNCHANGED <<rtStore, rtPassPc>>

RTStep ==
    \/ PassUpsert
    \/ PassInvalidate
    \/ \E r \in Requests : RouteCacheGet(r)
    \/ \E r \in Requests : RouteQueryStore(r)
    \/ \E r \in Requests : RouteCacheSet(r)

\* C37: after the pass's cache invalidation has completed, no events or
\* heatmap entry holds a result computed from the store as it was before the
\* pass's upsert.
C37_NoStaleEntryAfterInvalidation ==
    rtPassPc = "done" => \A k \in RouteKeys : rtCache[k] # 0

\* ========================================================================
\* insertEvent beside insertEvents
\* ========================================================================
\* insertEvent's ON CONFLICT (id) DO UPDATE SET: title, summary, intensity
\* and source_count are all taken from the incoming (EXCLUDED) row.
ConflictUpdateSingle(row, excluded) ==
    [row EXCEPT !.title = excluded.title,
                !.summaryLen = excluded.summaryLen,
                !.intensity = excluded.intensity,
                !.source_count = excluded.source_count]

\* insertEvent(event) on the table rows, the statement succeeding.
insertEvent(rows, event) ==
    IF \E r \in rows : r.id = event.id
    THEN {IF r.id = event.id THEN ConflictUpdateSingle(r, RowOf(event)) ELSE r :
             r \in rows}
    ELSE rows \cup {RowOf(event)}

IOParked ==
    /\ ioRows = {}
    /\ ioEvent = <<>>
    /\ ioSingle = <<>>
    /\ ioBatch = <<>>

\* A table that earlier batches left, and the event to insert.
IOInit ==
    /\ ioRows \in SeededTables
    /\ ioEvent \in {<<e>> : e \in StoreUniverse}
    /\ ioSingle = <<>>
    /\ ioBatch = <<>>

\* insertEvent(e) on the table.
InsertEventCall ==
    /\ ioEvent # <<>>
    /\ ioSingle = <<>>
    /\ ioSingle' = <<insertEvent(ioRows, ioEvent[1])>>
    /\ UNCHANGED <<ioRows, ioEvent, ioBatch>>

\* insertEvents([e]) on the same table, nothing failing.
InsertEventsOfOneCall ==
    /\ ioEvent # <<>>
    /\ ioBatch = <<>>
    /\ ioBatch' = <<insertEvents(ioRows, ioEvent, <<"ok">>, "none").rows>>
    /\ UNCHANGED <<ioRows, ioEvent, ioSingle>>

IOStep == InsertEventCall \/ InsertEventsOfOneCall

\* The stored intensity and source count of the row with the given id.
StoredMerge(rows, id) == {<<r.intensity, r.source_count>> : r \in {x \in rows : x.id = id}}

\* C38: insertEvent(e) applies the same conflict merge as insertEvents([e]):
\* for any stored row carrying e's id, both leave the same stored intensity
\* and the same stored source count.
C38_SingleInsertMergesLikeBatch ==
    (ioSingle # <<>> /\ ioBatch # <<>>
     /\ \E r \in ioRows : r.id = ioEvent[1].id) =>
        StoredMerge(ioSingle[1], ioEvent[1].id) = StoredMerge(ioBatch[1], ioEvent[1].id)

\* ========================================================================
\* Specifications
\* ========================================================================
RLParked ==
    /\ now = 0
    /\ tokens = maxTokens
    /\ lastRefill = 0
    /\ rlPc = [c \in Callers |-> "parked"]
    /\ issuedAt = [c \in Callers |-> 0]
    /\ issueNo = [c \in Callers |-> 0]
    /\ wakeAt = [c \in Callers |-> 0]
    /\ admittedAt = [c \in Callers |-> 0]

InitRL == RLInit /\ DDParked /\ INParked /\ STParked /\ AGParked /\ CAParked /\ GEParked /\ QAParked /\ CLParked /\ GSParked /\ TKParked /\ MGParked /\ WMParked /\ UPParked /\ EXParked /\ RTParked /\ IOParked /\ WRParked /\ GBParked
NextRL == RLStep /\ UNCHANGED <<ddVars, inVars, stVars, agVars, caVars, geVars, qaVars, clVars, gsVars, tkVars, mgVars, wmVars, upVars, exVars, rtVars, ioVars, wrVars, gbVars>>
SpecRL == InitRL /\ [][NextRL]_vars

InitDedup == DDInit /\ RLParked /\ INParked /\ STParked /\ AGParked /\ CAParked /\ GEParked /\ QAParked /\ CLParked /\ GSParked /\ TKParked /\ MGParked /\ WMParked /\ UPParked /\ EXParked /\ RTParked /\ IOParked /\ WRParked /\ GBParked
NextDedup == Deduplicate /\ UNCHANGED <<rlVars, inVars, stVars, agVars, caVars, geVars, qaVars, clVars, gsVars, tkVars, mgVars, wmVars, upVars, exVars, rtVars, ioVars, wrVars, gbVars>>
SpecDedup == InitDedup /\ [][NextDedup]_vars

InitIntensity == INInit /\ RLParked /\ DDParked /\ STParked /\ AGParked /\ CAParked /\ GEParked /\ QAParked /\ CLParked /\ GSParked /\ TKParked /\ MGParked /\ WMParked /\ UPParked /\ EXParked /\ RTParked /\ IOParked /\ WRParked /\ GBParked
NextIntensity == CalculateIntensity /\ UNCHANGED <<rlVars, ddVars, stVars, agVars, caVars, geVars, qaVars, clVars, gsVars, tkVars, mgVars, wmVars, upVars, exVars, rtVars, ioVars, wrVars, gbVars>>
SpecIntensity == InitIntensity /\ [][NextIntensity]_vars

InitStore == STInit /\ RLParked /\ DDParked /\ INParked /\ AGParked /\ CAParked /\ GEParked /\ QAParked /\ CLParked /\ GSParked /\ TKParked /\ MGParked /\ WMParked /\ UPParked /\ EXParked /\ RTParked /\ IOParked /\ WRParked /\ GBParked
NextStore == InsertEvents /\ UNCHANGED <<rlVars, ddVars, inVars, agVars, caVars, geVars, qaVars, clVars, gsVars, tkVars, mgVars, wmVars, upVars, exVars, rtVars, ioVars, wrVars, gbVars>>
SpecStore == InitStore /\ [][NextStore]_vars

InitAgg == AGInit /\ RLParked /\ DDParked /\ INParked /\ STParked /\ CAParked /\ GEParked /\ QAParked /\ CLParked /\ GSParked /\ TKParked /\ MGParked /\ WMParked /\ UPParked /\ EXParked /\ RTParked /\ IOParked /\ WRParked /\ GBParked
NextAgg == AGStep /\ UNCHANGED <<rlVars, ddVars, inVars, caVars, geVars, qaVars, clVars, gsVars, tkVars, mgVars, wmVars, upVars, exVars, rtVars, ioVars, wrVars, gbVars>>
SpecAgg == InitAgg /\ [][NextAgg]_vars

InitCache == CAInit /\ RLParked /\ DDParked /\ INParked /\ STParked /\ AGParked /\ GEParked /\ QAParked /\ CLParked /\ GSParked /\ TKParked /\ MGParked /\ WMParked /\ UPParked /\ EXParked /\ RTParked /\ IOParked /\ WRParked /\ GBParked
NextCache == CAStep /\ UNCHANGED <<rlVars, ddVars, inVars, stVars, agVars, geVars, qaVars, clVars, gsVars, tkVars, mgVars, wmVars, upVars, exVars, rtVars, ioVars, wrVars, gbVars>>
SpecCache == InitCache /\ [][NextCache]_vars

InitGeocode == GEInit /\ RLParked /\ DDParked /\ INParked /\ STParked /\ AGParked /\ CAParked /\ QAParked /\ CLParked /\ GSParked /\ TKParked /\ MGParked /\ WMParked /\ UPParked /\ EXParked /\ RTParked /\ IOParked /\ WRParked /\ GBParked
NextGeocode == GEStep /\ UNCHANGED <<rlVars, ddVars, inVars, stVars, agVars, caVars, qaVars, clVars, gsVars, tkVars, mgVars, wmVars, upVars, exVars, rtVars, ioVars, wrVars, gbVars>>
SpecGeocode == InitGeocode /\ [][NextGeocode]_vars

InitQuota == QAInit /\ RLParked /\ DDParked /\ INParked /\ STParked /\ AGParked /\ CAParked /\ GEParked /\ CLParked /\ GSParked /\ TKParked /\ MGParked /\ WMParked /\ UPParked /\ EXParked /\ RTParked /\ IOParked /\ WRParked /\ GBParked
NextQuota == QAStep /\ UNCHANGED <<rlVars, ddVars, inVars, stVars, agVars, caVars, geVars, clVars, gsVars, tkVars, mgVars, wmVars, upVars, exVars, rtVars, ioVars, wrVars, gbVars>>
SpecQuota == InitQuota /\ [][NextQuota]_vars

InitClassify == CLInit /\ RLParked /\ DDParked /\ INParked /\ STParked /\ AGParked /\ CAParked /\ GEParked /\ QAParked /\ GSParked /\ TKParked /\ MGParked /\ WMParked /\ UPParked /\ EXParked /\ RTParked /\ IOParked /\ WRParked /\ GBParked
NextClassify == CLStep /\ UNCHANGED <<rlVars, ddVars, inVars, stVars, agVars, caVars, geVars, qaVars, gsVars, tkVars, mgVars, wmVars, upVars, exVars, rtVars, ioVars, wrVars, gbVars>>
SpecClassify == InitClassify /\ [][NextClassify]_vars

InitGeoStage == GSInit /\ RLParked /\ DDParked /\ INParked /\ STParked /\ AGParked /\ CAParked /\ GEParked /\ QAParked /\ CLParked /\ TKParked /\ MGParked /\ WMParked /\ UPParked /\ EXParked /\ RTParked /\ IOParked /\ WRParked /\ GBParked
NextGeoStage == GSStep /\ UNCHANGED <<rlVars, ddVars, inVars, stVars, agVars, caVars, geVars, qaVars, clVars, tkVars, mgVars, wmVars, upVars, exVars, rtVars, ioVars, wrVars, gbVars>>
SpecGeoStage == InitGeoStage /\ [][NextGeoStage]_vars

InitTokyo == TKInit /\ RLParked /\ DDParked /\ INParked /\ STParked /\ AGParked /\ CAParked /\ GEParked /\ QAParked /\ CLParked /\ GSParked /\ MGParked /\ WMParked /\ UPParked /\ EXParked /\ RTParked /\ IOParked /\ WRParked /\ GBParked
NextTokyo == TKStep /\ UNCHANGED <<rlVars, ddVars, inVars, stVars, agVars, caVars, geVars, qaVars, clVars, gsVars, mgVars, wmVars, upVars, exVars, rtVars, ioVars, wrVars, gbVars>>
SpecTokyo == InitTokyo /\ [][NextTokyo]_vars

InitMerge == MGInit /\ RLParked /\ DDParked /\ INParked /\ STParked /\ AGParked /\ CAParked /\ GEParked /\ QAParked /\ CLParked /\ GSParked /\ TKParked /\ WMParked /\ UPParked /\ EXParked /\ RTParked /\ IOParked /\ WRParked /\ GBParked
NextMerge == MGStep /\ UNCHANGED <<rlVars, ddVars, inVars, stVars, agVars, caVars, geVars, qaVars, clVars, gsVars, tkVars, wmVars, upVars, exVars, rtVars, ioVars, wrVars, gbVars>>
SpecMerge == InitMerge /\ [][NextMerge]_vars

InitWorker == WMInit /\ RLParked /\ DDParked /\ INParked /\ STParked /\ AGParked /\ CAParked /\ GEParked /\ QAParked /\ CLParked /\ GSParked /\ TKParked /\ MGParked /\ UPParked /\ EXParked /\ RTParked /\ IOParked /\ WRParked /\ GBParked
NextWorker == WMStep /\ UNCHANGED <<rlVars, ddVars, inVars, stVars, agVars, caVars, geVars, qaVars, clVars, gsVars, tkVars, mgVars, upVars, exVars, rtVars, ioVars, wrVars, gbVars>>
SpecWorker == InitWorker /\ [][NextWorker]_vars

InitUpstream == UPInit /\ RLParked /\ DDParked /\ INParked /\ STParked /\ AGParked /\ CAParked /\ GEParked /\ QAParked /\ CLParked /\ GSParked /\ TKParked /\ MGParked /\ WMParked /\ EXParked /\ RTParked /\ IOParked /\ WRParked /\ GBParked
NextUpstream == UPStep /\ UNCHANGED <<rlVars, ddVars, inVars, stVars, agVars, caVars, geVars, qaVars, clVars, gsVars, tkVars, mgVars, wmVars, exVars, rtVars, ioVars, wrVars, gbVars>>
SpecUpstream == InitUpstream /\ [][NextUpstream]_vars

InitExtract == EXInit /\ RLParked /\ DDParked /\ INParked /\ STParked /\ AGParked /\ CAParked /\ GEParked /\ QAParked /\ CLParked /\ GSParked /\ TKParked /\ MGParked /\ WMParked /\ UPParked /\ RTParked /\ IOParked /\ WRParked /\ GBParked
NextExtract == ExtractLocationsCall /\ UNCHANGED <<rlVars, ddVars, inVars, stVars, agVars, caVars, geVars, qaVars, clVars, gsVars, tkVars, mgVars, wmVars, upVars, rtVars, ioVars, wrVars, gbVars>>
SpecExtract == InitExtract /\ [][NextExtract]_vars

InitRoute == RTInit /\ RLParked /\ DDParked /\ INParked /\ STParked /\ AGParked /\ CAParked /\ GEParked /\ QAParked /\ CLParked /\ GSParked /\ TKParked /\ MGParked /\ WMParked /\ UPParked /\ EXParked /\ IOParked /\ WRParked /\ GBParked
NextRoute == RTStep /\ UNCHANGED <<rlVars, ddVars, inVars, stVars, agVars, caVars, geVars, qaVars, clVars, gsVars, tkVars, mgVars, wmVars, upVars, exVars, ioVars, wrVars, gbVars>>
SpecRoute == InitRoute /\ [][NextRoute]_vars

InitInsertOne == IOInit /\ RLParked /\ DDParked /\ INParked /\ STParked /\ AGParked /\ CAParked /\ GEParked /\ QAParked /\ CLParked /\ GSParked /\ TKParked /\ MGParked /\ WMParked /\ UPParked /\ EXParked /\ RTParked /\ WRParked /\ GBParked
NextInsertOne == IOStep /\ UNCHANGED <<rlVars, ddVars, inVars, stVars, agVars, caVars, geVars, qaVars, clVars, gsVars, tkVars, mgVars, wmVars, upVars, exVars, rtVars, wrVars, gbVars>>
SpecInsertOne == InitInsertOne /\ [][NextInsertOne]_vars

InitRetry == WRInit /\ RLParked /\ DDParked /\ INParked /\ STParked /\ AGParked /\ CAParked /\ GEParked /\ QAParked /\ CLParked /\ GSParked /\ TKParked /\ MGParked /\ WMParked /\ UPParked /\ EXParked /\ RTParked /\ IOParked /\ GBParked
NextRetry == WRStep /\ UNCHANGED <<rlVars, ddVars, inVars, stVars, agVars, caVars, geVars, qaVars, clVars, gsVars, tkVars, mgVars, wmVars, upVars, exVars, rtVars, ioVars, gbVars>>
SpecRetry == InitRetry /\ [][NextRetry]_vars

InitGeocodeBatch == GBInit /\ RLParked /\ DDParked /\ INParked /\ STParked /\ AGParked /\ CAParked /\ QAParked /\ CLParked /\ GSParked /\ TKParked /\ MGParked /\ WMParked /\ UPParked /\ EXParked /\ RTParked /\ IOParked /\ WRParked
NextGeocodeBatch == GBStep /\ UNCHANGED <<rlVars, ddVars, inVars, stVars, agVars, caVars, qaVars, clVars, gsVars, tkVars, mgVars, wmVars, upVars, exVars, rtVars, ioVars, wrVars>>
SpecGeocodeBatch == InitGeocodeBatch /\ [][NextGeocodeBatch]_vars
====
